---- MODULE Spec2Model ----
(***************************************************************************)
(* The streaming conversation reducer of the chat client: the live event   *)
(* handler of client/hooks/useChatPage.ts (submit, handleEvent) and the    *)
(* history replay builder of client/utils/chat.ts                          *)
(* (buildChatEntriesFromDetail).                                           *)
(*                                                                         *)
(* Texts are sequences of tokens.  A token is a one-character string that  *)
(* came from an input (" " is the whitespace character) or a literal of    *)
(* the source taken as a whole ("Searching for ").  Concatenation is \o.   *)
(*                                                                         *)
(* A JavaScript value is a tagged record: Undefined, or Str(text).  An     *)
(* optional field of an object that is absent holds Undefined.  The        *)
(* optional toolEvents list of an entry is a sequence, <<>> standing for   *)
(* both undefined and []: the source never tells the two apart             *)
(* (`base.toolEvents ? [...] : [event]`, `toolEvents && length > 0`).      *)
(***************************************************************************)
EXTENDS Integers, Sequences, FiniteSets, TLC

VARIABLES
    messages,               \* useActiveConversation: the transcript (MessageEntry[])
    isStreaming,            \* useChatPage: the session-level streaming flag
    activeConversationId,   \* useActiveConversation: "null" or a conversation id
    assistantIds,           \* assistantMessageId of every submit so far, in order
    openStreams,            \* the submits whose streamChatResponse is still reading
    idCounter,              \* number of generateId() calls so far
    seen,                   \* per submit: the event types handleEvent has applied
    acc,                    \* per submit: the response_chunk texts applied, concatenated
    steps,                  \* number of operations applied so far
    persisted,              \* the persisted message list handed to the replay builder
    entries,                \* what buildChatEntriesFromDetail returned for it
    rpc,                    \* the replay builder's position: "idle", "start" or "done"
    fed,                    \* streamChatResponse: every byte reader.read() returned so far
    cuts,                   \* the offsets in fed at which one read ended and the next began
    pendingBytes,           \* TextDecoder: the bytes of a character not yet complete
    buffer,                 \* streamChatResponse: `buffer`
    lines,                  \* the lines handed to JSON.parse so far, in order
    dpc,                    \* the read loop's position: "idle", "reading" or "ended"
    delivered,              \* the payloads handed to onEvent so far, in order
    refreshes,              \* number of refreshConversations() calls so far
    onErrors,               \* number of onError calls so far
    args,                   \* the arguments of the formatter function under test
    result,                 \* what that function returned
    fpc,                    \* its position: "idle", "start" or "done"
    conversations,          \* useConversations: the ids of `conversations`, in order
    emptyConversationIds,   \* useActiveConversation: the Set, in insertion order
    pendingCall             \* the call of the conversation service that is awaited

liveVars == <<messages, isStreaming, activeConversationId, assistantIds, openStreams,
              idCounter, seen, acc, steps>>

replayVars == <<persisted, entries, rpc>>

decoderVars == <<fed, cuts, pendingBytes, buffer, lines, dpc>>

parserVars == <<delivered, refreshes, onErrors>>

formatterVars == <<args, result, fpc>>

sidebarVars == <<conversations, emptyConversationIds, pendingCall>>

\* The variables of the components the live handler does not touch.
otherVars == <<replayVars, decoderVars, parserVars, formatterVars, sidebarVars>>

vars == <<liveVars, otherVars>>

\* No stream is being decoded.
DecoderIdle ==
    /\ fed = <<>>
    /\ cuts = {}
    /\ pendingBytes = <<>>
    /\ buffer = <<>>
    /\ lines = <<>>
    /\ dpc = "idle"

\* No stream is being parsed.
ParserIdle ==
    /\ delivered = <<>>
    /\ refreshes = 0
    /\ onErrors = 0

\* No call of the conversation service is awaited, and no conversation is
\* listed.
NoCall == [op |-> "none", id |-> "null", deleted |-> "null", then |-> "none"]

SidebarIdle ==
    /\ conversations = <<>>
    /\ emptyConversationIds = <<>>
    /\ pendingCall = NoCall

\* No formatter function is under test.
FormatterIdle ==
    /\ args = <<>>
    /\ result = <<>>
    /\ fpc = "idle"

(***************************************************************************)
(* Bounds of the model and the inputs the operations are tried with.       *)
(***************************************************************************)
MaxSteps == 5
MaxMessages == 4

ChunkTexts == { <<"a">>, <<" ">> }
FinalTexts == { <<>>, <<" ">>, <<" ", "a">> }
UserInputs == { <<"a">> }
ErrorMessages == { <<"e">> }
CheckpointIds == { "c1", "c2" }

(***************************************************************************)
(* JavaScript values.                                                      *)
(***************************************************************************)
Undefined == [t |-> "undefined"]

Str(text) == [t |-> "string", v |-> text]

IsString(value) == value.t = "string"

\* JavaScript truthiness of a value of the universe: a non-empty string.
Truthy(value) == IsString(value) /\ value.v # <<>>

ToolNames == { "search", "tavily_search" }
ToolInputs == { Undefined, Str(<<"q">>) }
ToolOutputs == { Undefined, Str(<<"r">>) }

\* What String.prototype.trim strips: white space and line terminators.
IsSpace(token) == token \in {" ", "\n", "\t", "\r"}

RECURSIVE TrimStart(_)
TrimStart(text) ==
    IF text # <<>> /\ IsSpace(Head(text)) THEN TrimStart(Tail(text)) ELSE text

RECURSIVE TrimEnd(_)
TrimEnd(text) ==
    IF text # <<>> /\ IsSpace(text[Len(text)])
    THEN TrimEnd(SubSeq(text, 1, Len(text) - 1))
    ELSE text

\* String.prototype.trim
Trim(text) == TrimEnd(TrimStart(text))

\* generateId(): the n-th call returns a value no other call returns.
GeneratedId(n) == <<"gen", ToString(n)>>

(***************************************************************************)
(* JSON texts.  Besides one-character tokens a JSON text is made of the    *)
(* tokens "{", "}", ",", "null" and of member tokens: a member token is    *)
(* the text of one `"key":value` pair, taken as a whole.                   *)
(***************************************************************************)
Null == [t |-> "null"]

Arr(list) == [t |-> "array", v |-> list]

Num(n) == [t |-> "number", v |-> n]

\* The member tokens of the universe, with the key and the value they denote.
MemberTable ==
    { [token |-> "\"type\":\"checkpoint\"", key |-> "type", value |-> Str(<<"checkpoint">>)],
      [token |-> "\"type\":\"response_chunk\"", key |-> "type",
       value |-> Str(<<"response_chunk">>)],
      [token |-> "\"type\":\"final_response\"", key |-> "type",
       value |-> Str(<<"final_response">>)],
      [token |-> "\"type\":\"tool_call\"", key |-> "type", value |-> Str(<<"tool_call">>)],
      [token |-> "\"type\":\"tool_result\"", key |-> "type", value |-> Str(<<"tool_result">>)],
      [token |-> "\"type\":\"error\"", key |-> "type", value |-> Str(<<"error">>)],
      [token |-> "\"type\":\"done\"", key |-> "type", value |-> Str(<<"done">>)],
      [token |-> "\"type\":\"ping\"", key |-> "type", value |-> Str(<<"ping">>)],
      [token |-> "\"text\":\"a\"", key |-> "text", value |-> Str(<<"a">>)],
      [token |-> "\"text\":\" \"", key |-> "text", value |-> Str(<<" ">>)],
      [token |-> "\"tool_name\":\"search\"", key |-> "tool_name", value |-> Str(<<"search">>)],
      [token |-> "\"message\":\"e\"", key |-> "message", value |-> Str(<<"e">>)],
      [token |-> "\"checkpoint_id\":\"c1\"", key |-> "checkpoint_id",
       value |-> Str(<<"c1">>)],
      [token |-> "\"columns\":[\"a\"]", key |-> "columns", value |-> Arr(<<Str(<<"a">>)>>)],
      [token |-> "\"rows\":[[1]]", key |-> "rows", value |-> Arr(<<Arr(<<Num(1)>>)>>)],
      [token |-> "\"rows\":[[1],[2]]", key |-> "rows",
       value |-> Arr(<<Arr(<<Num(1)>>), Arr(<<Num(2)>>)>>)] }

Keys == { r.key : r \in MemberTable } \cup { "input", "output" }

IsMember(token) == \E r \in MemberTable : r.token = token

MemberOf(token) == CHOOSE r \in MemberTable : r.token = token

\* A double-quoted literal without inner quotes.
IsQuotedLiteral(text) ==
    /\ Len(text) >= 2
    /\ text[1] = "\"" /\ text[Len(text)] = "\""
    /\ \A i \in 2..(Len(text) - 1) : text[i] # "\""

\* "{", members separated by ",", "}".
IsObjectText(text) ==
    /\ Len(text) >= 2
    /\ text[1] = "{" /\ text[Len(text)] = "}"
    /\ Len(text) = 2 \/ Len(text) % 2 = 1
    /\ \A i \in 2..(Len(text) - 1) :
        IF i % 2 = 0 THEN IsMember(text[i]) ELSE text[i] = ","

\* The object an object text denotes: per key the value of its last member,
\* Undefined for a key it has no member of.
ObjectOf(text) ==
    [t |-> "object",
     m |-> [key \in Keys |->
              LET hits == { i \in 2..(Len(text) - 1) :
                              IsMember(text[i]) /\ MemberOf(text[i]).key = key }
              IN  IF hits = {} THEN Undefined
                  ELSE MemberOf(text[CHOOSE i \in hits : \A j \in hits : j <= i]).value]]

\* JSON.parse on a text: a quoted literal parses to its body, null to null,
\* an object text to its object; every other text of the universe is not
\* JSON and throws.
JsonParses(text) ==
    IsQuotedLiteral(text) \/ text = <<"null">> \/ IsObjectText(text)

JsonParse(text) ==
    IF IsQuotedLiteral(text) THEN Str(SubSeq(text, 2, Len(text) - 1))
    ELSE IF text = <<"null">> THEN Null
    ELSE ObjectOf(text)

coerceJson(value) ==
    IF value = Undefined \/ value = Null THEN Undefined
    ELSE IF IsString(value)
         THEN IF JsonParses(value.v) THEN JsonParse(value.v) ELSE value
         ELSE value

extractQuery(input) == IF IsString(input) THEN input ELSE Undefined

normaliseDetail(value) ==
    IF value = Undefined THEN Undefined
    ELSE IF IsString(value) THEN value
    ELSE Undefined

\* JSON.stringify of a string value: the text in double quotes, inner quotes escaped.
JsonStringify(value) ==
    Str(<<"\"">>
        \o [i \in 1..Len(value.v) |-> IF value.v[i] = "\"" THEN "\\\"" ELSE value.v[i]]
        \o <<"\"">>)

(***************************************************************************)
(* Tool events.                                                            *)
(***************************************************************************)
createToolEventHeadline(toolName) ==
    IF toolName = "tavily_search" THEN Str(<<"Preparing Tavily search...">>)
    ELSE Undefined

createToolEventDetail(toolName, rawInput) ==
    LET parsedInput == coerceJson(rawInput)
        query == IF Truthy(parsedInput) THEN extractQuery(parsedInput) ELSE Undefined
        special ==
            IF toolName = "tavily_search" /\ Truthy(query)
            THEN Str(<<"Searching for ">> \o query.v)
            ELSE Undefined
    IN  IF Truthy(special) THEN special
        ELSE IF Truthy(parsedInput) THEN parsedInput
        ELSE IF Truthy(rawInput) THEN JsonStringify(rawInput)
        ELSE Undefined

createToolEvent(toolName, rawInput, id) ==
    LET headline == createToolEventHeadline(toolName)
        detail == createToolEventDetail(toolName, rawInput)
    IN  [ id |-> id,
          toolName |-> toolName,
          status |-> "running",
          rawInput |-> coerceJson(rawInput),
          rawOutput |-> Undefined,
          headline |-> IF Truthy(headline) THEN headline
                       ELSE Str(<<"Assistant tool engaged">>),
          detail |-> IF Truthy(detail) THEN detail ELSE Undefined ]

\* With an output that is a string or undefined, outputObject is {} and
\* resultsArray is []: only the headline is rewritten, detail and links stay.
formatTavilyEvent(event, parsed) ==
    LET queryFromInput ==
            IF Truthy(event.rawInput) THEN extractQuery(event.rawInput) ELSE Undefined
    IN  [event EXCEPT !.headline =
            IF Truthy(queryFromInput)
            THEN Str(<<"Web search - \"">> \o queryFromInput.v \o <<"\"">>)
            ELSE IF ~Truthy(event.headline) THEN Str(<<"Web search">>)
            ELSE event.headline]

completeToolEvent(event, toolName, rawOutput) ==
    LET parsedOutput == coerceJson(rawOutput)
        next == [event EXCEPT !.status = "completed", !.rawOutput = parsedOutput]
        formattedDetail == normaliseDetail(parsedOutput)
    IN  IF toolName = "tavily_search" THEN formatTavilyEvent(next, parsedOutput)
        ELSE [next EXCEPT
                !.headline =
                    IF ~Truthy(next.headline) \/ next.headline = Str(<<"Assistant tool engaged">>)
                    THEN Str(<<"Assistant tool completed">>)
                    ELSE next.headline,
                !.detail = IF Truthy(formattedDetail) THEN formattedDetail ELSE next.detail]

(***************************************************************************)
(* Transcript entries and upsertAssistant.                                 *)
(***************************************************************************)
\* The `undefined` an updater gets when the entry is absent.
NoEntry == [role |-> "undefined"]

\* The `null` an updater returns to delete the entry or to create none.
NullEntry == [role |-> "null"]

UserEntry(id, content) ==
    [id |-> id, role |-> "user", content |-> content, isStreaming |-> FALSE,
     toolEvents |-> <<>>]

AssistantEntry(id, content, streaming, toolEvents) ==
    [id |-> id, role |-> "assistant", content |-> content, isStreaming |-> streaming,
     toolEvents |-> toolEvents]

\* prev.findIndex(item => item.id === assistantMessageId && item.role === 'assistant'),
\* 1-based, 0 when there is none.
findIndex(prev, assistantMessageId) ==
    LET hits == { i \in 1..Len(prev) :
                    prev[i].id = assistantMessageId /\ prev[i].role = "assistant" }
    IN  IF hits = {} THEN 0 ELSE CHOOSE i \in hits : \A j \in hits : i <= j

currentEntry(prev, assistantMessageId) ==
    IF findIndex(prev, assistantMessageId) = 0 THEN NoEntry
    ELSE prev[findIndex(prev, assistantMessageId)]

RemoveAt(list, index) ==
    SubSeq(list, 1, index - 1) \o SubSeq(list, index + 1, Len(list))

\* A variant of upsertAssistant that deletes the entry before the addressed one.
upsertAssistantOffByOne(prev, assistantMessageId, nextEntry) ==
    LET index == findIndex(prev, assistantMessageId)
    IN  IF nextEntry = NullEntry
        THEN IF index = 0 THEN prev ELSE RemoveAt(prev, index - 1)
        ELSE IF index = 0 THEN Append(prev, nextEntry)
        ELSE [prev EXCEPT ![index] = nextEntry]

\* A variant of upsertAssistant that appends the entry without looking for it.
upsertAssistantAlwaysAppend(prev, assistantMessageId, nextEntry) ==
    LET index == findIndex(prev, assistantMessageId)
    IN  IF nextEntry = NullEntry
        THEN IF index = 0 THEN prev ELSE RemoveAt(prev, index)
        ELSE Append(prev, nextEntry)

\* upsertAssistant with the updater's result for the current entry given.
upsertAssistant(prev, assistantMessageId, nextEntry) ==
    LET index == findIndex(prev, assistantMessageId)
    IN  IF nextEntry = NullEntry
        THEN IF index = 0 THEN prev ELSE RemoveAt(prev, index)
        ELSE IF index = 0 THEN Append(prev, nextEntry)
        ELSE [prev EXCEPT ![index] = nextEntry]

baseEntry(entry, assistantMessageId, streaming) ==
    IF entry = NoEntry THEN AssistantEntry(assistantMessageId, <<>>, streaming, <<>>)
    ELSE entry

(***************************************************************************)
(* The updaters of handleEvent, one per event type.                        *)
(***************************************************************************)
\* A variant of responseChunkUpdater that replaces the content by the chunk.
responseChunkUpdaterOverwrite(entry, assistantMessageId, text) ==
    LET base == baseEntry(entry, assistantMessageId, TRUE)
    IN  [base EXCEPT !.content = text, !.isStreaming = TRUE]

responseChunkUpdater(entry, assistantMessageId, text) ==
    LET base == baseEntry(entry, assistantMessageId, TRUE)
    IN  [base EXCEPT !.content = base.content \o text, !.isStreaming = TRUE]

\* A variant of finalResponseUpdater that overwrites the content of a present
\* entry with the final text whether or not that text is blank.
finalResponseUpdaterAlwaysOverwrite(entry, assistantMessageId, finalText) ==
    LET trimmedFinal == Trim(finalText)
    IN  IF entry = NoEntry
        THEN IF trimmedFinal = <<>> THEN NullEntry
             ELSE AssistantEntry(assistantMessageId, finalText, FALSE, <<>>)
        ELSE [entry EXCEPT !.content = finalText, !.isStreaming = FALSE]

\* A variant of finalResponseUpdater that creates the absent entry with the
\* trimmed final text.
finalResponseUpdaterCreateTrimmed(entry, assistantMessageId, finalText) ==
    LET trimmedFinal == Trim(finalText)
    IN  IF entry = NoEntry
        THEN IF trimmedFinal = <<>> THEN NullEntry
             ELSE AssistantEntry(assistantMessageId, trimmedFinal, FALSE, <<>>)
        ELSE IF trimmedFinal = <<>> /\ Trim(entry.content) = <<>>
             THEN [entry EXCEPT !.isStreaming = FALSE]
             ELSE [entry EXCEPT
                     !.content = IF trimmedFinal # <<>> THEN finalText ELSE entry.content,
                     !.isStreaming = FALSE]

finalResponseUpdater(entry, assistantMessageId, finalText) ==
    LET trimmedFinal == Trim(finalText)
    IN  IF entry = NoEntry
        THEN IF trimmedFinal = <<>> THEN NullEntry
             ELSE AssistantEntry(assistantMessageId, finalText, FALSE, <<>>)
        ELSE IF trimmedFinal = <<>> /\ Trim(entry.content) = <<>>
             THEN [entry EXCEPT !.isStreaming = FALSE]
             ELSE [entry EXCEPT
                     !.content = IF trimmedFinal # <<>> THEN finalText ELSE entry.content,
                     !.isStreaming = FALSE]

\* A variant of toolCallUpdater that puts the new event first.
toolCallUpdaterPrepend(entry, assistantMessageId, event) ==
    LET base == baseEntry(entry, assistantMessageId, TRUE)
    IN  [base EXCEPT !.toolEvents = <<event>> \o base.toolEvents]

toolCallUpdater(entry, assistantMessageId, event) ==
    LET base == baseEntry(entry, assistantMessageId, TRUE)
    IN  [base EXCEPT !.toolEvents = Append(base.toolEvents, event)]

\* A variant of matchedIndex that takes the last running event of the name.
matchedIndexLast(existingEvents, toolName) ==
    LET hits == { i \in 1..Len(existingEvents) :
                    /\ existingEvents[i].toolName = toolName
                    /\ existingEvents[i].status = "running" }
    IN  IF hits = {} THEN 0 ELSE CHOOSE i \in hits : \A j \in hits : j <= i

\* A variant of matchedIndex that does not look at the status.
matchedIndexAnyStatus(existingEvents, toolName) ==
    LET hits == { i \in 1..Len(existingEvents) : existingEvents[i].toolName = toolName }
    IN  IF hits = {} THEN 0 ELSE CHOOSE i \in hits : \A j \in hits : i <= j

\* The index the map of tool_result completes: the first event that has the
\* tool name and is running; 0 when `matched` stays false.
matchedIndex(existingEvents, toolName) ==
    LET hits == { i \in 1..Len(existingEvents) :
                    /\ existingEvents[i].toolName = toolName
                    /\ existingEvents[i].status = "running" }
    IN  IF hits = {} THEN 0 ELSE CHOOSE i \in hits : \A j \in hits : i <= j

\* A variant of toolResultUpdater that drops a result no running event matches.
toolResultUpdaterDropUnmatched(entry, assistantMessageId, toolName, output, fallbackId) ==
    LET base == baseEntry(entry, assistantMessageId, TRUE)
        existingEvents == base.toolEvents
        m == matchedIndex(existingEvents, toolName)
    IN  IF m # 0
        THEN [base EXCEPT !.toolEvents =
                [existingEvents EXCEPT
                    ![m] = completeToolEvent(existingEvents[m], toolName, output)]]
        ELSE base

toolResultUpdater(entry, assistantMessageId, toolName, output, fallbackId) ==
    LET base == baseEntry(entry, assistantMessageId, TRUE)
        existingEvents == base.toolEvents
        m == matchedIndex(existingEvents, toolName)
        nextEvents ==
            IF m # 0
            THEN [existingEvents EXCEPT
                    ![m] = completeToolEvent(existingEvents[m], toolName, output)]
            ELSE Append(existingEvents,
                        completeToolEvent(createToolEvent(toolName, Undefined, fallbackId),
                                          toolName, output))
    IN  [base EXCEPT !.toolEvents = nextEvents]

errorEvent(id, message) ==
    [ id |-> id, toolName |-> "Agent", status |-> "error", rawInput |-> Undefined,
      rawOutput |-> Undefined, headline |-> Undefined, detail |-> Str(message) ]

\* A variant of errorUpdater that leaves the content as it was.
errorUpdaterKeepContent(entry, assistantMessageId, message, id) ==
    LET base == baseEntry(entry, assistantMessageId, FALSE)
    IN  [base EXCEPT
            !.isStreaming = FALSE,
            !.toolEvents = Append(base.toolEvents, errorEvent(id, message))]

errorUpdater(entry, assistantMessageId, message, id) ==
    LET base == baseEntry(entry, assistantMessageId, FALSE)
    IN  [base EXCEPT
            !.content = message,
            !.isStreaming = FALSE,
            !.toolEvents = Append(base.toolEvents, errorEvent(id, message))]

\* A variant of doneUpdater that never deletes the entry.
doneUpdaterKeepEmpty(entry) ==
    IF entry = NoEntry THEN NullEntry
    ELSE IF ~entry.isStreaming THEN entry
    ELSE [entry EXCEPT !.isStreaming = FALSE]

\* A variant of doneUpdater that tests the content's length without trimming.
doneUpdaterNoTrim(entry) ==
    IF entry = NoEntry THEN NullEntry
    ELSE LET hasContent == Len(entry.content) > 0
             hasTools == Len(entry.toolEvents) > 0
         IN  IF ~hasContent /\ ~hasTools THEN NullEntry
             ELSE IF ~entry.isStreaming THEN entry
             ELSE [entry EXCEPT !.isStreaming = FALSE]

\* A variant of doneUpdater that leaves the entry's isStreaming flag alone.
doneUpdaterKeepStreaming(entry) ==
    IF entry = NoEntry THEN NullEntry
    ELSE LET hasContent == Len(Trim(entry.content)) > 0
             hasTools == Len(entry.toolEvents) > 0
         IN  IF ~hasContent /\ ~hasTools THEN NullEntry
             ELSE entry

doneUpdater(entry) ==
    IF entry = NoEntry THEN NullEntry
    ELSE LET hasContent == Len(Trim(entry.content)) > 0
             hasTools == Len(entry.toolEvents) > 0
         IN  IF ~hasContent /\ ~hasTools THEN NullEntry
             ELSE IF ~entry.isStreaming THEN entry
             ELSE [entry EXCEPT !.isStreaming = FALSE]

(***************************************************************************)
(* The history replay builder.                                             *)
(*                                                                         *)
(* A persisted message is a record kind, role, content, tool_name,         *)
(* tool_status, tool_call_id, tool_input, tool_output.  tool_name and      *)
(* tool_call_id are Undefined or Name(n); tool_status is "start",          *)
(* "complete", "error" or, when absent, "undefined"; tool_input and        *)
(* tool_output are JavaScript values.  Ids are texts.                      *)
(***************************************************************************)
Name(n) == [t |-> "name", v |-> n]

\* A variant of ensureAssistantHost that takes the last entry, whatever its role.
ensureAssistantHostAnyRole(list, conversationId, index) ==
    IF list # <<>>
    THEN [entries |-> list, hostIndex |-> Len(list)]
    ELSE [entries |-> Append(list,
              AssistantEntry(<<conversationId, "-", "assistant", "-", ToString(index)>>,
                             <<>>, FALSE, <<>>)),
          hostIndex |-> Len(list) + 1]

\* A variant of ensureAssistantHost that takes the first assistant entry.
ensureAssistantHostFirst(list, conversationId, index) ==
    LET hosts == { i \in 1..Len(list) : list[i].role = "assistant" }
    IN  IF hosts # {}
        THEN [entries |-> list,
              hostIndex |-> CHOOSE i \in hosts : \A j \in hosts : i <= j]
        ELSE [entries |-> Append(list,
                  AssistantEntry(<<conversationId, "-", "assistant", "-", ToString(index)>>,
                                 <<>>, FALSE, <<>>)),
              hostIndex |-> Len(list) + 1]

\* ensureAssistantHost: the index of the last assistant entry; when there is
\* none a placeholder is pushed and its index returned.
ensureAssistantHost(list, conversationId, index) ==
    LET hosts == { i \in 1..Len(list) : list[i].role = "assistant" }
    IN  IF hosts # {}
        THEN [entries |-> list,
              hostIndex |-> CHOOSE i \in hosts : \A j \in hosts : j <= i]
        ELSE [entries |-> Append(list,
                  AssistantEntry(<<conversationId, "-", "assistant", "-", ToString(index)>>,
                                 <<>>, FALSE, <<>>)),
              hostIndex |-> Len(list) + 1]

\* A variant of attachToHost that puts the pending events in front of the
\* host's own.
attachToHostPrepend(list, pending, conversationId, index) ==
    LET ensured == ensureAssistantHost(list, conversationId, index)
        host == ensured.entries[ensured.hostIndex]
    IN  [ensured.entries EXCEPT
            ![ensured.hostIndex] = [host EXCEPT !.toolEvents = pending \o host.toolEvents]]

\* The block both call sites of ensureAssistantHost share: the pending tool
\* events are appended to the host's toolEvents.
attachToHost(list, pending, conversationId, index) ==
    LET ensured == ensureAssistantHost(list, conversationId, index)
        host == ensured.entries[ensured.hostIndex]
    IN  [ensured.entries EXCEPT
            ![ensured.hostIndex] = [host EXCEPT !.toolEvents = host.toolEvents \o pending]]

\* A variant of toolMessageEvent that completes the event only on
\* tool_status complete, whatever tool_output is.
toolMessageEventByStatusOnly(message, conversationId, index) ==
    LET toolName == IF message.tool_name = Undefined THEN "tool" ELSE message.tool_name.v
        seedId == IF message.tool_call_id # Undefined
                  THEN <<conversationId, "-", message.tool_call_id.v>>
                  ELSE <<conversationId, "-", "tool", "-", ToString(index)>>
        created == createToolEvent(toolName, message.tool_input, seedId)
        completed ==
            IF message.tool_status = "complete"
            THEN completeToolEvent(created, toolName, message.tool_output)
            ELSE created
    IN  IF message.tool_status = "error"
        THEN [completed EXCEPT
                !.status = "error",
                !.detail = IF message.content # <<>> THEN Str(message.content)
                           ELSE IF Truthy(completed.detail) THEN completed.detail
                           ELSE Str(<<"Tool execution failed.">>)]
        ELSE IF message.content # <<>> /\ ~Truthy(completed.detail)
        THEN [completed EXCEPT !.detail = Str(message.content)]
        ELSE completed

\* Lines 167-196: the tool event of a tool message (index is 0-based).
toolMessageEvent(message, conversationId, index) ==
    LET toolName == IF message.tool_name = Undefined THEN "tool" ELSE message.tool_name.v
        seedId == IF message.tool_call_id # Undefined
                  THEN <<conversationId, "-", message.tool_call_id.v>>
                  ELSE <<conversationId, "-", "tool", "-", ToString(index)>>
        created == createToolEvent(toolName, message.tool_input, seedId)
        completed ==
            IF message.tool_status = "complete" \/ message.tool_output # Undefined
            THEN completeToolEvent(created, toolName, message.tool_output)
            ELSE created
    IN  IF message.tool_status = "error"
        THEN [completed EXCEPT
                !.status = "error",
                !.detail = IF message.content # <<>> THEN Str(message.content)
                           ELSE IF Truthy(completed.detail) THEN completed.detail
                           ELSE Str(<<"Tool execution failed.">>)]
        ELSE IF message.content # <<>> /\ ~Truthy(completed.detail)
        THEN [completed EXCEPT !.detail = Str(message.content)]
        ELSE completed

\* A variant of assistantMessageStep that never merges into the last entry.
assistantMessageStepNoMerge(list, pending, message, conversationId, index) ==
    Append(list,
           AssistantEntry(<<conversationId, "-", ToString(index)>>,
                          Trim(message.content), FALSE, pending))

\* Lines 212-239: an assistant message, the pending buffer drained into it.
assistantMessageStep(list, pending, message, conversationId, index) ==
    LET content == Trim(message.content)
        lastEntry == IF list = <<>> THEN NoEntry ELSE list[Len(list)]
    IN  IF lastEntry # NoEntry /\ lastEntry.role = "assistant"
           /\ Len(Trim(lastEntry.content)) = 0
        THEN [list EXCEPT ![Len(list)] =
                [lastEntry EXCEPT
                    !.content = content,
                    !.isStreaming = FALSE,
                    !.toolEvents = lastEntry.toolEvents \o pending]]
        ELSE Append(list,
                AssistantEntry(<<conversationId, "-", ToString(index)>>, content, FALSE,
                               pending))

\* A variant of replayStep that trims the content of a user message.
replayStepTrimUser(state, message, conversationId, index) ==
    IF message.kind = "tool" \/ message.role = "tool"
    THEN [entries |-> state.entries,
          pending |-> Append(state.pending,
                             toolMessageEvent(message, conversationId, index))]
    ELSE IF message.role = "user"
    THEN [entries |->
            Append(IF state.pending # <<>>
                   THEN attachToHost(state.entries, state.pending, conversationId, index)
                   ELSE state.entries,
                   UserEntry(<<conversationId, "-", ToString(index)>>,
                             Trim(message.content))),
          pending |-> <<>>]
    ELSE IF message.role = "assistant"
    THEN [entries |-> assistantMessageStep(state.entries, state.pending, message,
                                           conversationId, index),
          pending |-> <<>>]
    ELSE state

\* One iteration of messages.forEach: the state is the entries built so far
\* and the pending tool events.
replayStep(state, message, conversationId, index) ==
    IF message.kind = "tool" \/ message.role = "tool"
    THEN [entries |-> state.entries,
          pending |-> Append(state.pending,
                             toolMessageEvent(message, conversationId, index))]
    ELSE IF message.role = "user"
    THEN [entries |->
            Append(IF state.pending # <<>>
                   THEN attachToHost(state.entries, state.pending, conversationId, index)
                   ELSE state.entries,
                   UserEntry(<<conversationId, "-", ToString(index)>>, message.content)),
          pending |-> <<>>]
    ELSE IF message.role = "assistant"
    THEN [entries |-> assistantMessageStep(state.entries, state.pending, message,
                                           conversationId, index),
          pending |-> <<>>]
    ELSE state

RECURSIVE replayLoop(_, _, _, _)
replayLoop(state, list, conversationId, index) ==
    IF index >= Len(list) THEN state
    ELSE replayLoop(replayStep(state, list[index + 1], conversationId, index),
                    list, conversationId, index + 1)

\* Lines 254-262: tool events still pending after the pass go to a host.
attachTrailing(state, conversationId, count) ==
    IF state.pending # <<>>
    THEN attachToHost(state.entries, state.pending, conversationId, count)
    ELSE state.entries

\* A variant of finalFilter that keeps every entry.
finalFilterKeepAll(list) == list

\* Lines 265-270: the final filter.
finalFilter(list) ==
    SelectSeq(list, LAMBDA entry :
        \/ entry.role # "assistant"
        \/ Len(Trim(entry.content)) > 0
        \/ Len(entry.toolEvents) > 0)

buildChatEntriesFromDetail(conversationId, list) ==
    finalFilter(
        attachTrailing(
            replayLoop([entries |-> <<>>, pending |-> <<>>], list, conversationId, 0),
            conversationId, Len(list)))

(***************************************************************************)
(* The operations.                                                         *)
(***************************************************************************)
Sessions == 1..Len(assistantIds)

Record(s, type) == seen' = [seen EXCEPT ![s] = @ \cup {type}]

Init ==
    /\ messages = <<>>
    /\ isStreaming = FALSE
    /\ activeConversationId = "null"
    /\ assistantIds = <<>>
    /\ openStreams = {}
    /\ idCounter = 0
    /\ seen = <<>>
    /\ acc = <<>>
    /\ steps = 0
    /\ persisted = <<>>
    /\ entries = <<>>
    /\ rpc = "idle"
    /\ DecoderIdle
    /\ ParserIdle
    /\ SidebarIdle
    /\ FormatterIdle

\* submit: rejected while isStreaming; appends the user entry and the empty
\* streaming assistant entry, then starts reading the stream.
Submit(value) ==
    /\ steps < MaxSteps
    /\ Trim(value) # <<>>
    /\ ~isStreaming
    /\ activeConversationId' =
            IF activeConversationId = "null" THEN "c1" ELSE activeConversationId
    /\ messages' = messages \o
            << UserEntry(GeneratedId(idCounter + 1), Trim(value)),
               AssistantEntry(GeneratedId(idCounter + 2), <<>>, TRUE, <<>>) >>
    /\ idCounter' = idCounter + 2
    /\ assistantIds' = Append(assistantIds, GeneratedId(idCounter + 2))
    /\ openStreams' = openStreams \cup {Len(assistantIds) + 1}
    /\ seen' = Append(seen, {})
    /\ acc' = Append(acc, <<>>)
    /\ isStreaming' = TRUE
    /\ steps' = steps + 1
    /\ UNCHANGED otherVars

Checkpoint(s, checkpointId) ==
    /\ steps < MaxSteps
    /\ s \in openStreams
    /\ Record(s, "checkpoint")
    /\ activeConversationId' = checkpointId
    /\ steps' = steps + 1
    /\ UNCHANGED otherVars
    /\ UNCHANGED <<messages, isStreaming, assistantIds, openStreams, idCounter, acc>>

ResponseChunk(s, text) ==
    /\ steps < MaxSteps
    /\ s \in openStreams
    /\ Record(s, "response_chunk")
    /\ messages' = upsertAssistant(messages, assistantIds[s],
            responseChunkUpdater(currentEntry(messages, assistantIds[s]),
                                 assistantIds[s], text))
    /\ acc' = [acc EXCEPT ![s] = @ \o text]
    /\ steps' = steps + 1
    /\ UNCHANGED otherVars
    /\ UNCHANGED <<isStreaming, activeConversationId, assistantIds, openStreams, idCounter>>

FinalResponse(s, text) ==
    /\ steps < MaxSteps
    /\ s \in openStreams
    /\ Record(s, "final_response")
    /\ messages' = upsertAssistant(messages, assistantIds[s],
            finalResponseUpdater(currentEntry(messages, assistantIds[s]),
                                 assistantIds[s], text))
    /\ isStreaming' = FALSE
    /\ steps' = steps + 1
    /\ UNCHANGED otherVars
    /\ UNCHANGED <<activeConversationId, assistantIds, openStreams, idCounter, acc>>

ToolCall(s, toolName, input) ==
    /\ steps < MaxSteps
    /\ s \in openStreams
    /\ Record(s, "tool_call")
    /\ messages' = upsertAssistant(messages, assistantIds[s],
            toolCallUpdater(currentEntry(messages, assistantIds[s]), assistantIds[s],
                createToolEvent(toolName, coerceJson(input), GeneratedId(idCounter + 1))))
    /\ idCounter' = idCounter + 1
    /\ steps' = steps + 1
    /\ UNCHANGED otherVars
    /\ UNCHANGED <<isStreaming, activeConversationId, assistantIds, openStreams, acc>>

\* generateId() runs only for the fallback event of an unmatched result.
ToolResult(s, toolName, output) ==
    /\ steps < MaxSteps
    /\ s \in openStreams
    /\ Record(s, "tool_result")
    /\ LET entry == currentEntry(messages, assistantIds[s])
           unmatched ==
               matchedIndex(baseEntry(entry, assistantIds[s], TRUE).toolEvents, toolName) = 0
       IN  /\ messages' = upsertAssistant(messages, assistantIds[s],
                  toolResultUpdater(entry, assistantIds[s], toolName, output,
                                    GeneratedId(idCounter + 1)))
           /\ idCounter' = IF unmatched THEN idCounter + 1 ELSE idCounter
    /\ steps' = steps + 1
    /\ UNCHANGED otherVars
    /\ UNCHANGED <<isStreaming, activeConversationId, assistantIds, openStreams, acc>>

ErrorEvent(s, message) ==
    /\ steps < MaxSteps
    /\ s \in openStreams
    /\ Record(s, "error")
    /\ messages' = upsertAssistant(messages, assistantIds[s],
            errorUpdater(currentEntry(messages, assistantIds[s]), assistantIds[s],
                         message, GeneratedId(idCounter + 1)))
    /\ idCounter' = idCounter + 1
    /\ isStreaming' = FALSE
    /\ steps' = steps + 1
    /\ UNCHANGED otherVars
    /\ UNCHANGED <<activeConversationId, assistantIds, openStreams, acc>>

Done(s) ==
    /\ steps < MaxSteps
    /\ s \in openStreams
    /\ Record(s, "done")
    /\ messages' = upsertAssistant(messages, assistantIds[s],
            doneUpdater(currentEntry(messages, assistantIds[s])))
    /\ isStreaming' = FALSE
    /\ steps' = steps + 1
    /\ UNCHANGED otherVars
    /\ UNCHANGED <<activeConversationId, assistantIds, openStreams, idCounter, acc>>

\* reader.read() reports the end of the stream: streamChatResponse returns.
StreamEnd(s) ==
    /\ steps < MaxSteps
    /\ s \in openStreams
    /\ openStreams' = openStreams \ {s}
    /\ steps' = steps + 1
    /\ UNCHANGED otherVars
    /\ UNCHANGED <<messages, isStreaming, activeConversationId, assistantIds, idCounter,
                   seen, acc>>

\* handleEvent(assistantMessageId of submit s, payload), for every payload.
HandleEvent(s) ==
    \/ \E c \in CheckpointIds : Checkpoint(s, c)
    \/ \E text \in ChunkTexts : ResponseChunk(s, text)
    \/ \E text \in FinalTexts : FinalResponse(s, text)
    \/ \E n \in ToolNames, i \in ToolInputs : ToolCall(s, n, i)
    \/ \E n \in ToolNames, o \in ToolOutputs : ToolResult(s, n, o)
    \/ \E m \in ErrorMessages : ErrorEvent(s, m)
    \/ Done(s)

Next ==
    \/ \E value \in UserInputs : Submit(value)
    \/ \E s \in Sessions, c \in CheckpointIds : Checkpoint(s, c)
    \/ \E s \in Sessions, text \in ChunkTexts : ResponseChunk(s, text)
    \/ \E s \in Sessions, text \in FinalTexts : FinalResponse(s, text)
    \/ \E s \in Sessions, n \in ToolNames, i \in ToolInputs : ToolCall(s, n, i)
    \/ \E s \in Sessions, n \in ToolNames, o \in ToolOutputs : ToolResult(s, n, o)
    \/ \E s \in Sessions, m \in ErrorMessages : ErrorEvent(s, m)
    \/ \E s \in Sessions : Done(s)
    \/ \E s \in Sessions : StreamEnd(s)

Spec == Init /\ [][Next]_vars

(***************************************************************************)
(* The replay builder on its own: loadConversation hands it the persisted  *)
(* messages of a conversation (useActiveConversation.ts, line 54).         *)
(***************************************************************************)
MessageOf(role, content) ==
    [kind |-> "message", role |-> role, content |-> content, tool_name |-> Undefined,
     tool_status |-> "undefined", tool_call_id |-> Undefined, tool_input |-> Undefined,
     tool_output |-> Undefined]

ToolMessageOf(toolName, status, input, output, content) ==
    [kind |-> "tool", role |-> "tool", content |-> content, tool_name |-> Name(toolName),
     tool_status |-> status, tool_call_id |-> Undefined, tool_input |-> input,
     tool_output |-> output]

PersistedMessages ==
    { MessageOf("user", <<"a">>),
      MessageOf("user", <<" ">>),
      MessageOf("assistant", <<>>),
      MessageOf("assistant", <<" ">>),
      MessageOf("assistant", <<"a">>),
      ToolMessageOf("search", "complete", Str(<<"q">>), Str(<<"r">>), <<>>),
      ToolMessageOf("search", "error", Undefined, Undefined, <<"e">>),
      ToolMessageOf("search", "error", Undefined, Str(<<"r">>), <<>>),
      [ToolMessageOf("search", "start", Str(<<"q">>), Undefined, <<>>)
          EXCEPT !.role = "assistant"],
      [ToolMessageOf("search", "undefined", Undefined, Null, <<"a">>)
          EXCEPT !.kind = "message"] }

MessageLists == UNION { [1..n -> PersistedMessages] : n \in 0..MaxMessages }

InitReplay ==
    /\ messages = <<>>
    /\ isStreaming = FALSE
    /\ activeConversationId = "null"
    /\ assistantIds = <<>>
    /\ openStreams = {}
    /\ idCounter = 0
    /\ seen = <<>>
    /\ acc = <<>>
    /\ steps = 0
    /\ persisted \in MessageLists
    /\ entries = <<>>
    /\ rpc = "start"
    /\ DecoderIdle
    /\ ParserIdle
    /\ SidebarIdle
    /\ FormatterIdle

BuildChatEntries ==
    /\ rpc = "start"
    /\ entries' = buildChatEntriesFromDetail("c1", persisted)
    /\ rpc' = "done"
    /\ UNCHANGED <<persisted, liveVars, decoderVars, parserVars, formatterVars, sidebarVars>>

NextReplay == BuildChatEntries

SpecReplay == InitReplay /\ [][NextReplay]_vars

(***************************************************************************)
(* The flat persisted-message projection of a transcript: one user message *)
(* per user entry; per assistant entry one tool message per tool event, in *)
(* order, then one assistant message with the entry's content.             *)
(***************************************************************************)
ProjectStatus(status) ==
    IF status = "running" THEN "start"
    ELSE IF status = "completed" THEN "complete"
    ELSE "error"

ProjectEntry(entry) ==
    IF entry.role = "user" THEN << MessageOf("user", entry.content) >>
    ELSE [i \in 1..Len(entry.toolEvents) |->
            ToolMessageOf(entry.toolEvents[i].toolName,
                          ProjectStatus(entry.toolEvents[i].status),
                          entry.toolEvents[i].rawInput,
                          entry.toolEvents[i].rawOutput, <<>>)]
         \o << MessageOf("assistant", entry.content) >>

RECURSIVE Project(_)
Project(list) ==
    IF list = <<>> THEN <<>> ELSE ProjectEntry(Head(list)) \o Project(Tail(list))

\* What the round trip compares: role, content and the (toolName, status) of
\* the tool events; id and isStreaming are left out.
Shape(list) ==
    [i \in 1..Len(list) |->
        [role |-> list[i].role,
         content |-> list[i].content,
         tools |-> [k \in 1..Len(list[i].toolEvents) |->
                        [toolName |-> list[i].toolEvents[k].toolName,
                         status |-> list[i].toolEvents[k].status]]]]

(***************************************************************************)
(* What the properties below read off a transcript.                        *)
(***************************************************************************)
AssistantIndexes(list, id) ==
    { i \in 1..Len(list) : list[i].role = "assistant" /\ list[i].id = id }

Present(list, id) == AssistantIndexes(list, id) # {}

TheEntry(list, id) == list[CHOOSE i \in AssistantIndexes(list, id) : TRUE]

ToolEventsOf(list, id) == IF Present(list, id) THEN TheEntry(list, id).toolEvents ELSE <<>>

ContentOf(list, id) == IF Present(list, id) THEN TheEntry(list, id).content ELSE <<>>

IsEmptyAssistant(entry) ==
    entry.role = "assistant" /\ entry.content = <<>> /\ entry.toolEvents = <<>>

IsBlank(text) == \A i \in 1..Len(text) : text[i] = " "

OthersOf(list, id) == SelectSeq(list, LAMBDA entry : entry.id # id)

RunningNamed(events, toolName) ==
    { i \in 1..Len(events) : events[i].toolName = toolName /\ events[i].status = "running" }

Earliest(indexes) == CHOOSE i \in indexes : \A j \in indexes : i <= j

HoldsOneFinalized(list, id, text) ==
    /\ Cardinality(AssistantIndexes(list, id)) = 1
    /\ TheEntry(list, id).content = text
    /\ ~TheEntry(list, id).isStreaming

(***************************************************************************)
(* C1.  Round trip: the transcript T the live handler produced, projected  *)
(* to the flat persisted-message list and fed to                           *)
(* buildChatEntriesFromDetail, comes back with the same entries: role,     *)
(* content and (toolName, status) of the tool events.  Stated for the      *)
(* transcripts of finished streams (every submit's stream has delivered    *)
(* done and has ended), where the placeholder entry of submit is gone.     *)
(***************************************************************************)
AllFinished ==
    /\ Sessions # {}
    /\ openStreams = {}
    /\ \A s \in Sessions : "done" \in seen[s]

RoundTripEquivalence ==
    AllFinished =>
        Shape(buildChatEntriesFromDetail("c1", Project(messages))) = Shape(messages)

(***************************************************************************)
(* C2.  Chunk accumulation, as claimed: response_chunk events t1..tn       *)
(* (n >= 1) and then done on a fresh session leave exactly one assistant   *)
(* entry of the session, content t1..tn, isStreaming false.                *)
(***************************************************************************)
ChunkAccumulationAnyText ==
    [][\A s \in Sessions :
        (Done(s) /\ seen[s] = {"response_chunk"}) =>
            HoldsOneFinalized(messages', assistantIds[s], acc[s])]_vars

(***************************************************************************)
(* C2 as amended: the same when t1..tn holds a character that is not       *)
(* whitespace; when t1..tn is empty or all whitespace, done leaves no      *)
(* assistant entry of the session.                                         *)
(***************************************************************************)
ChunkAccumulation ==
    [][\A s \in Sessions :
        (Done(s) /\ seen[s] = {"response_chunk"}) =>
            IF IsBlank(acc[s])
            THEN ~Present(messages', assistantIds[s])
            ELSE HoldsOneFinalized(messages', assistantIds[s], acc[s])]_vars

ChunkAccumulationWitness ==
    \E s \in Sessions :
        /\ seen[s] = {"response_chunk", "done"}
        /\ Len(acc[s]) >= 2
        /\ HoldsOneFinalized(messages, assistantIds[s], acc[s])

CompletedInCallOrder ==
    \A i \in 1..Len(messages) :
        \A j, k \in 1..Len(messages[i].toolEvents) :
            (/\ j < k
             /\ messages[i].toolEvents[j].toolName = messages[i].toolEvents[k].toolName
             /\ messages[i].toolEvents[j].status = "running")
                => messages[i].toolEvents[k].status = "running"

ToolFifoMatching ==
    /\ []CompletedInCallOrder
    /\ [][\A s \in Sessions, n \in ToolNames, o \in ToolOutputs :
            LET before == ToolEventsOf(messages, assistantIds[s])
                after == ToolEventsOf(messages', assistantIds[s])
            IN  (RunningNamed(before, n) # {} /\ ToolResult(s, n, o)) =>
                    /\ Len(after) = Len(before)
                    /\ \A i \in 1..Len(before) :
                        IF i = Earliest(RunningNamed(before, n))
                        THEN /\ after[i].status = "completed"
                             /\ after[i].id = before[i].id
                             /\ after[i].toolName = n
                        ELSE after[i] = before[i]]_vars

\* One submit and four events, tool_call and tool_result only, with two
\* generateId() calls beyond submit's and two tool events in the entry: two
\* calls and two matched results.
ToolFifoMatchingWitness ==
    /\ Len(assistantIds) = 1
    /\ steps = 5
    /\ idCounter = 4
    /\ seen[1] = {"tool_call", "tool_result"}
    /\ Len(ToolEventsOf(messages, assistantIds[1])) = 2
    /\ LET events == ToolEventsOf(messages, assistantIds[1])
       IN  /\ events[1].toolName = events[2].toolName
           /\ events[1].status = "completed" /\ events[2].status = "completed"
           /\ events[1].rawOutput = Undefined
           /\ events[2].rawOutput = Str(<<"r">>)

(***************************************************************************)
(* C5.  Out-of-order tool result: a tool_result for N when no event of N   *)
(* is running (also when the entry is absent or has no tool events)        *)
(* appends exactly one tool event, completed and not error, to the         *)
(* addressed entry, and leaves the other tool events and the content as    *)
(* they were.                                                              *)
(***************************************************************************)
OutOfOrderToolResult ==
    [][\A s \in Sessions, n \in ToolNames, o \in ToolOutputs :
        LET before == ToolEventsOf(messages, assistantIds[s])
            after == ToolEventsOf(messages', assistantIds[s])
        IN  (RunningNamed(before, n) = {} /\ ToolResult(s, n, o)) =>
                /\ Cardinality(AssistantIndexes(messages', assistantIds[s])) = 1
                /\ Len(after) = Len(before) + 1
                /\ after[Len(after)].status = "completed"
                /\ after[Len(after)].toolName = n
                /\ \A i \in 1..Len(before) : after[i] = before[i]
                /\ ContentOf(messages', assistantIds[s]) =
                       ContentOf(messages, assistantIds[s])]_vars

OutOfOrderToolResultWitness ==
    \E s \in Sessions :
        /\ seen[s] = {"tool_call", "tool_result"}
        /\ Len(ToolEventsOf(messages, assistantIds[s])) = 2
        /\ LET events == ToolEventsOf(messages, assistantIds[s])
           IN  /\ events[1].status = "running"
               /\ events[2].status = "completed"
               /\ events[1].toolName # events[2].toolName

(***************************************************************************)
(* C6.  Idempotent pruning: a session that got only checkpoint and done    *)
(* events has, from its first done on, no assistant entry in the           *)
(* transcript, and a further done leaves the transcript as it is.          *)
(***************************************************************************)
OnlyCheckpointAndDone(s) ==
    "done" \in seen[s] /\ seen[s] \subseteq {"checkpoint", "done"}

IdempotentPruning ==
    /\ [](\A s \in Sessions :
            OnlyCheckpointAndDone(s) => ~Present(messages, assistantIds[s]))
    /\ [][\A s \in Sessions :
            (Done(s) /\ OnlyCheckpointAndDone(s)) => messages' = messages]_vars

IdempotentPruningWitness ==
    \E s \in Sessions :
        /\ seen[s] = {"checkpoint", "done"}
        /\ ~Present(messages, assistantIds[s])
        /\ Len(messages) = 1
        /\ steps >= 4

(***************************************************************************)
(* C7.  As claimed: no reachable transcript holds an assistant entry with  *)
(* empty content and no tool events.                                       *)
(***************************************************************************)
NeverEmptyAssistant ==
    \A i \in 1..Len(messages) : ~IsEmptyAssistant(messages[i])

(***************************************************************************)
(* C7 as amended: right after a done event the transcript holds no         *)
(* assistant entry of the addressed session with empty (or all-whitespace) *)
(* content and no tool events.  Before that it can: submit appends one.    *)
(***************************************************************************)
DonePrunesEmptyAssistant ==
    [][\A s \in Sessions :
        Done(s) =>
            \A i \in AssistantIndexes(messages', assistantIds[s]) :
                ~(IsBlank(messages'[i].content) /\ messages'[i].toolEvents = <<>>)]_vars

DonePrunesEmptyAssistantWitness ==
    \E s \in Sessions :
        /\ seen[s] = {"response_chunk", "done"}
        /\ acc[s] = <<" ">>
        /\ ~Present(messages, assistantIds[s])

(***************************************************************************)
(* C8.  Whatever the persisted messages, buildChatEntriesFromDetail        *)
(* returns no assistant entry with empty content and no tool events.       *)
(***************************************************************************)
ReplayDropsEmptyAssistant ==
    rpc = "done" => \A i \in 1..Len(entries) : ~IsEmptyAssistant(entries[i])

ReplayDropsEmptyAssistantWitness ==
    /\ rpc = "done"
    /\ Len(persisted) = 3
    /\ persisted[1].role = "user"
    /\ persisted[2].role = "assistant" /\ persisted[2].content = <<>>
    /\ persisted[3].role = "user"
    /\ Len(entries) = 2

(***************************************************************************)
(* C9.  Terminal tool events are final: a tool event that is completed or  *)
(* error stays in its entry, at its place, with every field as it was,     *)
(* whatever event is applied next.                                         *)
(***************************************************************************)
TerminalToolEventsFinal ==
    [][\A i \in 1..Len(messages) :
        \A k \in 1..Len(messages[i].toolEvents) :
            messages[i].toolEvents[k].status \in {"completed", "error"} =>
                /\ Present(messages', messages[i].id)
                /\ Len(ToolEventsOf(messages', messages[i].id)) >= k
                /\ ToolEventsOf(messages', messages[i].id)[k] = messages[i].toolEvents[k]]_vars

TerminalToolEventsFinalWitness ==
    \E s \in Sessions :
        /\ Len(ToolEventsOf(messages, assistantIds[s])) = 3
        /\ LET events == ToolEventsOf(messages, assistantIds[s])
           IN  /\ events[1].status = "completed"
               /\ events[2].status = "error"
               /\ events[3].toolName = events[1].toolName
               /\ events[3].status = "completed"

(***************************************************************************)
(* C10.  Frame property: an event applied for assistantMessageId a leaves  *)
(* every entry whose id is not a as it was, and in the same order; a       *)
(* checkpoint event changes no entry.                                      *)
(***************************************************************************)
ReducerFrame ==
    [][\A s \in Sessions :
        /\ \/ OthersOf(messages', assistantIds[s]) = OthersOf(messages, assistantIds[s])
           \/ ~HandleEvent(s)
        /\ \/ messages' = messages
           \/ ~(\E c \in CheckpointIds : Checkpoint(s, c))]_vars

ReducerFrameWitness ==
    /\ Len(assistantIds) = 2
    /\ Len(messages) = 4
    /\ messages[1].role = "user" /\ messages[2].role = "user"
    /\ messages[3].id = assistantIds[2]
    /\ messages[4].id = assistantIds[1]

(***************************************************************************)
(* C11.  As claimed: at most one stream is being read at a time, and a     *)
(* submit issued while the stream of an earlier submit is still being read *)
(* starts no stream and appends no entries.                                *)
(***************************************************************************)
SingleStreamingSession ==
    /\ [](Cardinality(openStreams) <= 1)
    /\ [][openStreams # {} =>
            (\A value \in UserInputs : ~Submit(value))]_vars

(***************************************************************************)
(* The frame decoder: the read loop of ChatService.streamChatResponse      *)
(* (client/services/chat.ts, lines 46-80) on its own.  The stream is a     *)
(* sequence of bytes; "H" "L" are the two bytes of one two-byte character  *)
(* "HL", every other byte is a character by itself.  What the loop hands   *)
(* to JSON.parse is recorded in lines.                                     *)
(***************************************************************************)
MaxBytes == 4
MaxChunkLen == 2

Bytes == { "a", " ", "\n", "H", "L" }

\* The values reader.read() can resolve to.
Chunks == UNION { [1..n -> Bytes] : n \in 0..MaxChunkLen }

\* TextDecoder on one more byte: a lead byte waits for its continuation
\* byte; a byte that cannot continue or start a character decodes to
\* U+FFFD.
decodeByte(state, byte) ==
    IF state.pending = <<>>
    THEN IF byte = "H" THEN [pending |-> <<"H">>, text |-> state.text]
         ELSE IF byte = "L" THEN [pending |-> <<>>, text |-> Append(state.text, "U+FFFD")]
         ELSE [pending |-> <<>>, text |-> Append(state.text, byte)]
    ELSE IF byte = "L" THEN [pending |-> <<>>, text |-> Append(state.text, "HL")]
         ELSE IF byte = "H"
              THEN [pending |-> <<"H">>, text |-> Append(state.text, "U+FFFD")]
              ELSE [pending |-> <<>>, text |-> state.text \o <<"U+FFFD", byte>>]

RECURSIVE decodeBytes(_, _)
decodeBytes(state, bytes) ==
    IF bytes = <<>> THEN state
    ELSE decodeBytes(decodeByte(state, Head(bytes)), Tail(bytes))

\* A variant of decodeStream that forgets the incomplete character of the
\* previous read: decoder.decode(value) without { stream: true }.
decodeStreamForgetful(pending, chunk) ==
    LET state == decodeBytes([pending |-> <<>>, text |-> <<>>], chunk)
    IN  IF state.pending = <<>> THEN state
        ELSE [pending |-> <<>>, text |-> Append(state.text, "U+FFFD")]

\* decoder.decode(value, { stream: true }): the text of the characters that
\* are complete, the bytes of an incomplete one kept for the next call.
decodeStream(pending, chunk) ==
    decodeBytes([pending |-> pending, text |-> <<>>], chunk)

\* buffer.indexOf('\n'), 1-based, 0 when there is none.
indexOfNewline(text) ==
    LET hits == { i \in 1..Len(text) : text[i] = "\n" }
    IN  IF hits = {} THEN 0 ELSE CHOOSE i \in hits : \A j \in hits : i <= j

\* Line 58: buffer.slice(0, newlineIndex).trim()
lineOf(text, newlineIndex) == Trim(SubSeq(text, 1, newlineIndex - 1))

\* Lines 56-69: the inner loop, every complete line of the buffer taken off
\* it and, when not empty, handed to JSON.parse.
RECURSIVE drainLines(_)
drainLines(state) ==
    LET newlineIndex == indexOfNewline(state.buffer)
        line == lineOf(state.buffer, newlineIndex)
    IN  IF newlineIndex = 0 THEN state
        ELSE drainLines(
                [buffer |-> SubSeq(state.buffer, newlineIndex + 1, Len(state.buffer)),
                 lines |-> IF line # <<>> THEN Append(state.lines, line)
                           ELSE state.lines])

\* A variant of flushTail that drops what is left in the buffer.
flushTailDropped(state) == state

\* Lines 72-80: the tail flush.
flushTail(state) ==
    LET tail == Trim(state.buffer)
    IN  [buffer |-> state.buffer,
         lines |-> IF tail # <<>> THEN Append(state.lines, tail) ELSE state.lines]

InitDecoder ==
    /\ messages = <<>>
    /\ isStreaming = FALSE
    /\ activeConversationId = "null"
    /\ assistantIds = <<>>
    /\ openStreams = {}
    /\ idCounter = 0
    /\ seen = <<>>
    /\ acc = <<>>
    /\ steps = 0
    /\ persisted = <<>>
    /\ entries = <<>>
    /\ rpc = "idle"
    /\ fed = <<>>
    /\ cuts = {}
    /\ pendingBytes = <<>>
    /\ buffer = <<>>
    /\ lines = <<>>
    /\ dpc = "reading"
    /\ ParserIdle
    /\ SidebarIdle
    /\ FormatterIdle

\* One iteration of the outer loop with done false (lines 51-69).
ReadChunk(chunk) ==
    /\ dpc = "reading"
    /\ Len(fed) + Len(chunk) <= MaxBytes
    /\ LET decoded == decodeStream(pendingBytes, chunk)
           drained == drainLines([buffer |-> buffer \o decoded.text, lines |-> lines])
       IN  /\ pendingBytes' = decoded.pending
           /\ buffer' = drained.buffer
           /\ lines' = drained.lines
    /\ fed' = fed \o chunk
    /\ cuts' = cuts \cup {Len(fed)}
    /\ UNCHANGED <<dpc, liveVars, replayVars, parserVars, formatterVars, sidebarVars>>

\* reader.read() resolves with done true: break, then the tail flush.
ReadDone ==
    /\ dpc = "reading"
    /\ lines' = flushTail([buffer |-> buffer, lines |-> lines]).lines
    /\ dpc' = "ended"
    /\ UNCHANGED <<fed, cuts, pendingBytes, buffer, liveVars, replayVars, parserVars,
                   formatterVars, sidebarVars>>

NextDecoder ==
    \/ \E chunk \in Chunks : ReadChunk(chunk)
    \/ ReadDone

SpecDecoder == InitDecoder /\ [][NextDecoder]_vars

(***************************************************************************)
(* What the decoder's properties are stated against: the text a byte       *)
(* sequence encodes, and its segments between newlines.                    *)
(***************************************************************************)
ValidEncoding(bytes) ==
    \A i \in 1..Len(bytes) :
        /\ bytes[i] = "H" => (i < Len(bytes) /\ bytes[i + 1] = "L")
        /\ bytes[i] = "L" => (i > 1 /\ bytes[i - 1] = "H")

RECURSIVE TextOf(_)
TextOf(bytes) ==
    IF bytes = <<>> THEN <<>>
    ELSE IF Head(bytes) = "H" /\ Len(bytes) >= 2 /\ bytes[2] = "L"
         THEN <<"HL">> \o TextOf(SubSeq(bytes, 3, Len(bytes)))
         ELSE <<Head(bytes)>> \o TextOf(Tail(bytes))

\* The pieces of a text between its newlines, empty ones included.
RECURSIVE Segments(_)
Segments(text) ==
    IF \A i \in 1..Len(text) : text[i] # "\n" THEN <<text>>
    ELSE LET n == CHOOSE i \in 1..Len(text) :
                    text[i] = "\n" /\ \A j \in 1..(i - 1) : text[j] # "\n"
         IN  <<SubSeq(text, 1, n - 1)>> \o Segments(SubSeq(text, n + 1, Len(text)))

RECURSIVE Flatten(_)
Flatten(list) == IF list = <<>> THEN <<>> ELSE Head(list) \o Flatten(Tail(list))

TrimmedSegments(text) ==
    LET segments == Segments(text)
    IN  SelectSeq([i \in 1..Len(segments) |-> Trim(segments[i])],
                  LAMBDA line : line # <<>>)

(***************************************************************************)
(* C12.  As claimed: when the stream has ended, the lines handed to the    *)
(* parser, put together, are the input text without its newlines: no       *)
(* character of a line, whitespace at its ends included, is removed.       *)
(***************************************************************************)
DecoderDropsNothing ==
    (dpc = "ended" /\ ValidEncoding(fed)) =>
        Flatten(lines) = SelectSeq(TextOf(fed), LAMBDA c : c # "\n")

(***************************************************************************)
(* C12 as amended: when the stream has ended, the lines handed to the      *)
(* parser are, in order, the segments of the input text between newlines   *)
(* (the last one included, with or without a newline after it), each with  *)
(* the whitespace at its two ends removed, and without the segments that   *)
(* are empty after that.  Nothing else is removed.                         *)
(***************************************************************************)
DecoderKeepsTrimmedLines ==
    (dpc = "ended" /\ ValidEncoding(fed)) => lines = TrimmedSegments(TextOf(fed))

DecoderKeepsTrimmedLinesWitness ==
    /\ dpc = "ended"
    /\ fed = <<" ", "a", "\n", "a">>
    /\ lines = << <<"a">>, <<"a">> >>

(***************************************************************************)
(* C13.  Chunk-boundary independence: however the bytes read so far were   *)
(* split into reads (in the middle of a line, in the middle of a           *)
(* character, with empty reads), the lines handed to the parser are the    *)
(* ones a single read of all these bytes hands to it, in the same order.   *)
(***************************************************************************)
ChunkBoundaryIndependence ==
    LET whole == decodeStream(<<>>, fed)
        drained == drainLines([buffer |-> whole.text, lines |-> <<>>])
    IN  /\ dpc = "reading" => lines = drained.lines
        /\ dpc = "ended" => lines = flushTail(drained).lines

ChunkBoundaryIndependenceWitness ==
    /\ dpc = "ended"
    /\ fed = <<"H", "L", "\n", "a">>
    /\ {1, 3} \subseteq cuts
    /\ lines = << <<"HL">>, <<"a">> >>

(***************************************************************************)
(* The event parser and the handler behind it: one stream, from the call   *)
(* of streamChatResponse in submit to its return, read line by line.  The  *)
(* byte layer is left out: what is read is a line taken off the buffer     *)
(* (services/chat.ts, lines 57-67) or the tail (lines 72-80).              *)
(***************************************************************************)
MaxLines == 3

Get(payload, key) == payload.m[key]

ObjectText1(member) == <<"{", member, "}">>

ObjectText2(first, second) == <<"{", first, ",", second, "}">>

\* The lines a stream is made of: the events of the protocol, events with a
\* field missing, an unknown tag, no tag, null, texts that are not JSON, a
\* line with blanks around it and a blank line.
WireLines ==
    { ObjectText2("\"type\":\"checkpoint\"", "\"checkpoint_id\":\"c1\""),
      ObjectText2("\"type\":\"response_chunk\"", "\"text\":\"a\""),
      ObjectText2("\"type\":\"response_chunk\"", "\"text\":\" \""),
      ObjectText1("\"type\":\"response_chunk\""),
      ObjectText2("\"type\":\"final_response\"", "\"text\":\"a\""),
      ObjectText1("\"type\":\"final_response\""),
      ObjectText2("\"type\":\"tool_call\"", "\"tool_name\":\"search\""),
      ObjectText2("\"type\":\"tool_result\"", "\"tool_name\":\"search\""),
      ObjectText2("\"type\":\"error\"", "\"message\":\"e\""),
      <<" ">> \o ObjectText1("\"type\":\"done\"") \o <<" ">>,
      ObjectText1("\"type\":\"ping\""),
      <<"{", "}">>,
      <<"null">>,
      <<"{", "\"type\":\"done\"">>,
      <<" ">> }

\* The messages of the errors fetch and reader.read() reject with.
TransportErrorMessages == { <<>>, <<"e">> }

\* `${value}` in a template literal.
templateText(value) == IF IsString(value) THEN value.v ELSE <<"undefined">>

\* payload.text ?? ''
textOrEmpty(value) == IF value = Undefined \/ value = Null THEN <<>> ELSE value.v

\* The conversation id in the model's terms.
conversationIdOf(value) == IF IsString(value) THEN value.v[1] ELSE "undefined"

\* shouldRefresh as the updater of final_response leaves it (lines 169-198).
shouldRefreshAfter(entry, finalText) ==
    IF entry = NoEntry THEN Trim(finalText) # <<>>
    ELSE ~(Trim(finalText) = <<>> /\ Trim(entry.content) = <<>>)

\* The handler's state as one value.
HandlerState ==
    [messages |-> messages, isStreaming |-> isStreaming,
     activeConversationId |-> activeConversationId, idCounter |-> idCounter,
     refreshes |-> refreshes]

\* handleEvent throws on `payload.type` when the payload is null.
handleEventThrows(payload) == payload = Null

\* handleEvent(assistantMessageId, payload) on the state `state`.  The
\* updater handed to setMessages runs at once when no state update is
\* queued, and at the next render otherwise; `ranUpdater` tells whether it
\* had run when final_response reads shouldRefresh (line 200).
handleEvent(state, assistantMessageId, payload, ranUpdater) ==
    LET type == Get(payload, "type")
        entry == currentEntry(state.messages, assistantMessageId)
        upsert(nextEntry) == upsertAssistant(state.messages, assistantMessageId, nextEntry)
        nextId == GeneratedId(state.idCounter + 1)
    IN  IF type = Str(<<"checkpoint">>)
        THEN [state EXCEPT
                !.activeConversationId = conversationIdOf(Get(payload, "checkpoint_id")),
                !.refreshes = @ + 1]
        ELSE IF type = Str(<<"response_chunk">>)
        THEN [state EXCEPT
                !.messages = upsert(responseChunkUpdater(entry, assistantMessageId,
                                        templateText(Get(payload, "text"))))]
        ELSE IF type = Str(<<"final_response">>)
        THEN LET finalText == textOrEmpty(Get(payload, "text"))
             IN  [state EXCEPT
                    !.messages = upsert(finalResponseUpdater(entry, assistantMessageId,
                                                             finalText)),
                    !.isStreaming = FALSE,
                    !.refreshes = IF ranUpdater /\ shouldRefreshAfter(entry, finalText)
                                  THEN @ + 1 ELSE @]
        ELSE IF type = Str(<<"tool_call">>)
        THEN [state EXCEPT
                !.messages = upsert(toolCallUpdater(entry, assistantMessageId,
                    createToolEvent(Get(payload, "tool_name").v[1],
                                    coerceJson(Get(payload, "input")), nextId))),
                !.idCounter = @ + 1]
        ELSE IF type = Str(<<"tool_result">>)
        THEN LET toolName == Get(payload, "tool_name").v[1]
                 unmatched ==
                    matchedIndex(baseEntry(entry, assistantMessageId, TRUE).toolEvents,
                                 toolName) = 0
             IN  [state EXCEPT
                    !.messages = upsert(toolResultUpdater(entry, assistantMessageId, toolName,
                                            Get(payload, "output"), nextId)),
                    !.idCounter = IF unmatched THEN @ + 1 ELSE @,
                    !.refreshes = @ + 1]
        ELSE IF type = Str(<<"error">>)
        THEN [state EXCEPT
                !.messages = upsert(errorUpdater(entry, assistantMessageId,
                                                 Get(payload, "message").v, nextId)),
                !.idCounter = @ + 1,
                !.isStreaming = FALSE]
        ELSE IF type = Str(<<"done">>)
        THEN [state EXCEPT
                !.messages = upsert(doneUpdater(entry)),
                !.isStreaming = FALSE,
                !.refreshes = @ + 1]
        ELSE state

\* The read loop's state as one value.
StreamState ==
    [handler |-> HandlerState, lines |-> lines, delivered |-> delivered,
     onErrors |-> onErrors, ended |-> FALSE]

\* The payload the onError callback of submit hands to handleEvent
\* (useChatPage.ts, lines 354-360): error.message || 'Unexpected error'.
transportErrorPayload(message) ==
    [t |-> "object",
     m |-> [key \in Keys |->
              IF key = "type" THEN Str(<<"error">>)
              ELSE IF key = "message"
                   THEN Str(IF message # <<>> THEN message ELSE <<"Unexpected error">>)
                   ELSE Undefined]]

\* The outer catch (services/chat.ts, lines 81-87): onError, and the function returns.
outerCatch(stream, assistantMessageId, message) ==
    [stream EXCEPT
        !.handler = handleEvent(stream.handler, assistantMessageId,
                                transportErrorPayload(message), TRUE),
        !.onErrors = @ + 1,
        !.ended = TRUE]

\* A variant of lineFailed without the inner try: the exception of
\* JSON.parse reaches the outer catch.
lineFailedFatal(stream, assistantMessageId) ==
    outerCatch(stream, assistantMessageId, <<"e">>)

\* The inner catch (lines 64-66, 77-79): the failure is logged, nothing else.
lineFailed(stream, assistantMessageId) == stream

\* Lines 58-67 (and 72-80 for the tail): the line is trimmed; when not
\* empty it is parsed and the payload handed to onEvent, a failure of
\* either caught.
processLine(stream, assistantMessageId, raw, ranUpdater) ==
    LET line == Trim(raw)
        handed == [stream EXCEPT !.lines = Append(@, line)]
        payload == JsonParse(line)
        called == [handed EXCEPT !.delivered = Append(@, payload)]
    IN  IF line = <<>> THEN stream
        ELSE IF ~JsonParses(line) THEN lineFailed(handed, assistantMessageId)
        ELSE IF handleEventThrows(payload) THEN lineFailed(called, assistantMessageId)
        ELSE [called EXCEPT
                !.handler = handleEvent(called.handler, assistantMessageId, payload,
                                        ranUpdater)]

\* The state takes the values of `stream`; the function has returned when
\* `returned` or when the outer catch ran.
Becomes(stream, returned) ==
    /\ messages' = stream.handler.messages
    /\ isStreaming' = stream.handler.isStreaming
    /\ activeConversationId' = stream.handler.activeConversationId
    /\ idCounter' = stream.handler.idCounter
    /\ refreshes' = stream.handler.refreshes
    /\ lines' = stream.lines
    /\ delivered' = stream.delivered
    /\ onErrors' = stream.onErrors
    /\ dpc' = IF returned \/ stream.ended THEN "ended" ELSE "reading"
    /\ openStreams' = IF returned \/ stream.ended THEN {} ELSE openStreams
    /\ UNCHANGED <<assistantIds, seen, acc, steps, fed, cuts, pendingBytes, buffer,
                   replayVars, formatterVars, sidebarVars>>

\* submit has appended its two entries and called streamChatResponse.
InitStream ==
    /\ messages = << UserEntry(GeneratedId(1), <<"a">>),
                     AssistantEntry(GeneratedId(2), <<>>, TRUE, <<>>) >>
    /\ isStreaming = TRUE
    /\ activeConversationId = "c1"
    /\ assistantIds = <<GeneratedId(2)>>
    /\ openStreams = {1}
    /\ idCounter = 2
    /\ seen = <<{}>>
    /\ acc = << <<>> >>
    /\ steps = 1
    /\ persisted = <<>>
    /\ entries = <<>>
    /\ rpc = "idle"
    /\ fed = <<>>
    /\ cuts = {}
    /\ pendingBytes = <<>>
    /\ buffer = <<>>
    /\ lines = <<>>
    /\ dpc = "reading"
    /\ ParserIdle
    /\ SidebarIdle
    /\ FormatterIdle

\* A line is taken off the buffer.
ReadLine(raw, ranUpdater) ==
    /\ dpc = "reading"
    /\ Len(lines) < MaxLines
    /\ Becomes(processLine(StreamState, assistantIds[1], raw, ranUpdater), FALSE)

\* A variant of ReadTail that returns without the tail flush.
ReadTailDropped(raw, ranUpdater) ==
    /\ dpc = "reading"
    /\ Len(lines) < MaxLines \/ raw = <<>>
    /\ Becomes(StreamState, TRUE)

\* The stream has ended: the tail, which can be empty, is flushed and the
\* function returns.
ReadTail(raw, ranUpdater) ==
    /\ dpc = "reading"
    /\ Len(lines) < MaxLines \/ raw = <<>>
    /\ Becomes(processLine(StreamState, assistantIds[1], raw, ranUpdater), TRUE)

\* fetch or reader.read() rejects.
TransportError(message) ==
    /\ dpc = "reading"
    /\ Becomes(outerCatch(StreamState, assistantIds[1], message), TRUE)

\* The responses fetch resolves with that lines 38-44 turn down: 401, a
\* status that is not 2xx, and a 2xx response without a body.
FailingResponses ==
    { [status |-> "401", ok |-> FALSE, body |-> TRUE],
      [status |-> "500", ok |-> FALSE, body |-> TRUE],
      [status |-> "200", ok |-> TRUE, body |-> FALSE] }

\* The message of the Error thrown at line 39 or 43.
httpErrorMessage(response) ==
    IF response.status = "401" THEN <<"Authentication failed">>
    ELSE <<"Request failed with status ", response.status>>

\* A variant of HttpFailure that returns without calling onError.
HttpFailureUnreported(response) ==
    /\ dpc = "reading"
    /\ lines = <<>>
    /\ Becomes([StreamState EXCEPT !.ended = TRUE], TRUE)

\* fetch resolves with a response that is turned down: the throw is before
\* the reader is made (line 46), so before any line is read; it reaches
\* the outer catch.
HttpFailure(response) ==
    /\ dpc = "reading"
    /\ lines = <<>>
    /\ Becomes(outerCatch(StreamState, assistantIds[1], httpErrorMessage(response)), TRUE)

NextStream ==
    \/ \E raw \in WireLines, ranUpdater \in BOOLEAN : ReadLine(raw, ranUpdater)
    \/ \E raw \in WireLines \cup {<<>>}, ranUpdater \in BOOLEAN : ReadTail(raw, ranUpdater)
    \/ \E message \in TransportErrorMessages : TransportError(message)
    \/ \E response \in FailingResponses : HttpFailure(response)

SpecStream == InitStream /\ [][NextStream]_vars

(***************************************************************************)
(* What the parser's properties read off a step of the stream.             *)
(***************************************************************************)
\* The step hands a line to JSON.parse (ReadLine or ReadTail with a line
\* that is not blank: nothing else changes lines), and the line it hands.
LineRead == lines' # lines

TheLine == lines'[Len(lines')]

\* The step is the tail flush.
IsTailFlush == \E raw \in WireLines, ranUpdater \in BOOLEAN : ReadTail(raw, ranUpdater)

IsEvent(line, tag) ==
    /\ JsonParses(line)
    /\ JsonParse(line).t = "object"
    /\ Get(JsonParse(line), "type") = Str(<<tag>>)

Has(line, key) == Get(JsonParse(line), key) # Undefined

\* The payloads of the lines that are JSON, in the order of the lines.
PayloadsOf(list) ==
    LET wellFormed == SelectSeq(list, JsonParses)
    IN  [i \in 1..Len(wellFormed) |-> JsonParse(wellFormed[i])]

HandlerUntouched ==
    /\ messages' = messages
    /\ isStreaming' = isStreaming
    /\ activeConversationId' = activeConversationId
    /\ refreshes' = refreshes

(***************************************************************************)
(* C14.  Parse failures are not fatal and keep the order: the payloads     *)
(* handed to onEvent are those of the well-formed lines read, once each    *)
(* and in the order of the lines; a line that is not JSON changes neither  *)
(* the transcript nor any other state of the handler, hands nothing to     *)
(* onEvent, does not call onError and does not end the loop.               *)
(***************************************************************************)
ParseFailuresNonFatal ==
    /\ [](delivered = PayloadsOf(lines))
    /\ [][(LineRead /\ ~JsonParses(TheLine)) =>
            /\ HandlerUntouched
            /\ delivered' = delivered
            /\ onErrors' = onErrors
            /\ dpc' = "reading" \/ IsTailFlush]_vars

\* A line that is not JSON between two response_chunk lines, both applied.
ParseFailuresNonFatalWitness ==
    /\ dpc = "reading"
    /\ Len(lines) = 3
    /\ IsEvent(lines[1], "response_chunk")
    /\ ~JsonParses(lines[2])
    /\ IsEvent(lines[3], "response_chunk")
    /\ Len(delivered) = 2
    /\ onErrors = 0
    /\ ContentOf(messages, assistantIds[1]) = <<"a", "a">>

(***************************************************************************)
(* C15.  As claimed: a line that is JSON but is no event of the protocol   *)
(* (null, no tag, an unknown tag, or a known tag without the field the     *)
(* handler reads: text, tool_name, message, checkpoint_id of checkpoint)   *)
(* is skipped, the transcript stays what it was.                           *)
(***************************************************************************)
MatchesKnownEvent(line) ==
    \/ IsEvent(line, "checkpoint") /\ Has(line, "checkpoint_id")
    \/ IsEvent(line, "response_chunk") /\ Has(line, "text")
    \/ IsEvent(line, "final_response") /\ Has(line, "text")
    \/ IsEvent(line, "tool_call") /\ Has(line, "tool_name")
    \/ IsEvent(line, "tool_result") /\ Has(line, "tool_name")
    \/ IsEvent(line, "error") /\ Has(line, "message")
    \/ IsEvent(line, "done")

ShapeMismatchSkipped ==
    [][(LineRead /\ JsonParses(TheLine) /\ ~MatchesKnownEvent(TheLine)) =>
            messages' = messages]_vars

(***************************************************************************)
(* C16.  An error event with message m, sent by the server or made by the  *)
(* onError callback of submit, appends one tool event with status error    *)
(* and detail m to the addressed entry, which it creates when absent,      *)
(* keeps the tool events that were there, sets the entry's content to m    *)
(* and ends streaming, of the entry and of the session.                    *)
(***************************************************************************)
ErrorApplied(m) ==
    \/ /\ LineRead
       /\ IsEvent(TheLine, "error")
       /\ Get(JsonParse(TheLine), "message") = Str(m)
    \/ /\ onErrors' # onErrors
       /\ \E message \in TransportErrorMessages :
            /\ Get(transportErrorPayload(message), "message") = Str(m)
            /\ TransportError(message)

ErrorEventSurfaced ==
    [][\A m \in { <<"e">>, <<"Unexpected error">> } :
        LET before == ToolEventsOf(messages, assistantIds[1])
            after == ToolEventsOf(messages', assistantIds[1])
        IN  ErrorApplied(m) =>
                /\ Cardinality(AssistantIndexes(messages', assistantIds[1])) = 1
                /\ Len(after) = Len(before) + 1
                /\ after[Len(after)].status = "error"
                /\ after[Len(after)].detail = Str(m)
                /\ \A i \in 1..Len(before) : after[i] = before[i]
                /\ ContentOf(messages', assistantIds[1]) = m
                /\ ~TheEntry(messages', assistantIds[1]).isStreaming
                /\ ~isStreaming']_vars

\* done has removed the entry, a tool_result has made it again, and the
\* transport fails without a message.
ErrorEventSurfacedWitness ==
    /\ dpc = "ended"
    /\ onErrors = 1
    /\ Len(lines) = 2
    /\ IsEvent(lines[1], "done")
    /\ IsEvent(lines[2], "tool_result")
    /\ Len(messages) = 2
    /\ ~isStreaming
    /\ LET entry == TheEntry(messages, assistantIds[1])
       IN  /\ entry.content = <<"Unexpected error">>
           /\ ~entry.isStreaming
           /\ Len(entry.toolEvents) = 2
           /\ entry.toolEvents[1].status = "completed"
           /\ entry.toolEvents[2].status = "error"
           /\ entry.toolEvents[2].detail = Str(<<"Unexpected error">>)

(***************************************************************************)
(* C17.  As claimed: refreshConversations is called once for a checkpoint, *)
(* a tool_result and a done event, once for a final_response when the      *)
(* entry's content is not empty after it and not at all otherwise, and     *)
(* never for a response_chunk, tool_call or error event.                   *)
(***************************************************************************)
RefreshesFor(line, after) ==
    IF IsEvent(line, "checkpoint") \/ IsEvent(line, "tool_result") \/ IsEvent(line, "done")
    THEN 1
    ELSE IF IsEvent(line, "final_response") /\ ContentOf(after, assistantIds[1]) # <<>>
    THEN 1
    ELSE 0

RefreshPerEvent ==
    [][(LineRead /\ MatchesKnownEvent(TheLine)) =>
            refreshes' = refreshes + RefreshesFor(TheLine, messages')]_vars

(***************************************************************************)
(* shorten (client/utils/chat.ts, lines 58-63) on its own.  The ellipsis   *)
(* is three "." characters.                                                *)
(***************************************************************************)
MaxLen == 5
MaxMax == 6

ShortenValues == UNION { [1..n -> {"a", "b"}] : n \in 0..MaxLen }

ShortenArgs == { <<value, max>> : value \in ShortenValues, max \in 0..MaxMax }

\* value.slice(0, end): a negative end counts from the end of the text.
sliceFromStart(text, end) ==
    IF end < 0
    THEN SubSeq(text, 1, IF Len(text) + end > 0 THEN Len(text) + end ELSE 0)
    ELSE SubSeq(text, 1, IF end < Len(text) THEN end ELSE Len(text))

\* A variant of shorten that cuts at max, not at max - 3.
shortenCutAtMax(value, max) ==
    IF Len(value) <= max THEN value
    ELSE sliceFromStart(value, max) \o <<".", ".", ".">>

shorten(value, max) ==
    IF Len(value) <= max THEN value
    ELSE sliceFromStart(value, max - 3) \o <<".", ".", ".">>

InitShorten ==
    /\ messages = <<>>
    /\ isStreaming = FALSE
    /\ activeConversationId = "null"
    /\ assistantIds = <<>>
    /\ openStreams = {}
    /\ idCounter = 0
    /\ seen = <<>>
    /\ acc = <<>>
    /\ steps = 0
    /\ persisted = <<>>
    /\ entries = <<>>
    /\ rpc = "idle"
    /\ DecoderIdle
    /\ ParserIdle
    /\ SidebarIdle
    /\ args \in ShortenArgs
    /\ result = <<>>
    /\ fpc = "start"

Shorten ==
    /\ fpc = "start"
    /\ result' = shorten(args[1], args[2])
    /\ fpc' = "done"
    /\ UNCHANGED <<args, liveVars, replayVars, decoderVars, parserVars, sidebarVars>>

NextShorten == Shorten

SpecShorten == InitShorten /\ [][NextShorten]_vars

MaxUnits == 2

ToolMarker == "ToolMessage(content="

AIMarker == "AIMessage(content="

Quotes == { "'", "\"" }

OtherQuote(quote) == IF quote = "'" THEN "\"" ELSE "'"

\* The pieces a literal's body is written with: a character that is neither
\* the literal's quote nor a backslash, or a backslash and one character.
Units(quote) ==
    { <<"x">>, <<" ">>, <<OtherQuote(quote)>>,
      <<"\\", "n">>, <<"\\", quote>>, <<"\\", "\\">> }

UnitLists(quote) == UNION { [1..n -> Units(quote)] : n \in 0..MaxUnits }

\* The bodies of the ToolMessage literal: a table with one row, with two
\* rows, the first written with an escaped brace, an object without rows,
\* and a text that is not JSON.
ToolBodies ==
    { << <<"{">>, <<"\"columns\":[\"a\"]">>, <<",">>, <<"\"rows\":[[1]]">>, <<"}">> >>,
      << <<"{">>, <<"\"columns\":[\"a\"]">>, <<",">>, <<"\"rows\":[[1],[2]]">>, <<"}">> >>,
      << <<"\\", "{">>, <<"\"columns\":[\"a\"]">>, <<",">>, <<"\"rows\":[[1]]">>, <<"}">> >>,
      << <<"{">>, <<"\"columns\":[\"a\"]">>, <<"}">> >>,
      << <<"x">> >> }

ScannerArgs ==
    UNION { { [toolQuote |-> tq, toolBody |-> tb, aiQuote |-> aq, aiBody |-> ab, gap |-> g] :
                tq \in Quotes, tb \in ToolBodies, ab \in UnitLists(aq),
                g \in { <<>>, <<" ">> } } : aq \in Quotes }

\* The text handed to the parser: a ToolMessage marker with its literal,
\* then an AIMessage marker with its literal, `gap` between marker and quote.
ScannerText(a) ==
    <<"x", ToolMarker>> \o <<a.toolQuote>> \o Flatten(a.toolBody) \o <<a.toolQuote>>
    \o <<")", ",", " ", AIMarker>> \o a.gap
    \o <<a.aiQuote>> \o Flatten(a.aiBody) \o <<a.aiQuote>> \o <<")", "'", "\"">>

Nothing == [ok |-> FALSE]

escaped(next) ==
    IF next = "n" THEN "\n"
    ELSE IF next = "t" THEN "\t"
    ELSE IF next = "r" THEN "\r"
    ELSE next

\* The while loop of parseQuotedString.
RECURSIVE scanQuoted(_, _, _, _)
scanQuoted(text, quote, i, value) ==
    IF i > Len(text) THEN Nothing
    ELSE IF text[i] = "\\"
    THEN IF i + 1 > Len(text) THEN Nothing
         ELSE scanQuoted(text, quote, i + 2, Append(value, escaped(text[i + 1])))
    ELSE IF text[i] = quote THEN [ok |-> TRUE, value |-> value, endIndex |-> i + 1]
    ELSE scanQuoted(text, quote, i + 1, Append(value, text[i]))

\* A variant of scanQuoted to which a backslash is a character like any other.
RECURSIVE scanQuotedNoEscapes(_, _, _, _)
scanQuotedNoEscapes(text, quote, i, value) ==
    IF i > Len(text) THEN Nothing
    ELSE IF text[i] = quote THEN [ok |-> TRUE, value |-> value, endIndex |-> i + 1]
    ELSE scanQuotedNoEscapes(text, quote, i + 1, Append(value, text[i]))

\* A variant of parseQuotedString that does not honour backslash escapes.
parseQuotedStringNoEscapes(text, startIndex) ==
    IF startIndex > Len(text) \/ text[startIndex] \notin Quotes THEN Nothing
    ELSE scanQuotedNoEscapes(text, text[startIndex], startIndex + 1, <<>>)

parseQuotedString(text, startIndex) ==
    IF startIndex > Len(text) \/ text[startIndex] \notin Quotes THEN Nothing
    ELSE scanQuoted(text, text[startIndex], startIndex + 1, <<>>)

\* value.indexOf(marker, index), 0 when there is none.
indexOfFrom(text, marker, index) ==
    LET hits == { i \in index..Len(text) : text[i] = marker }
    IN  IF hits = {} THEN 0 ELSE CHOOSE i \in hits : \A j \in hits : i <= j

\* while (cursor < value.length && value[cursor] === ' ') cursor += 1
RECURSIVE skipBlanks(_, _)
skipBlanks(text, cursor) ==
    IF cursor <= Len(text) /\ text[cursor] = " " THEN skipBlanks(text, cursor + 1)
    ELSE cursor

isRecord(value) == value.t = "object"

isArray(value) == value.t = "array"

\* normaliseExcelRow: an array row becomes the pairs column: value, a
\* column that has no name is named col_<n>.
normaliseExcelRow(row, columns) ==
    IF isRecord(row) THEN row
    ELSE IF isArray(row)
    THEN [i \in 1..Len(row.v) |->
            [key |-> IF i <= Len(columns) THEN columns[i] ELSE <<"col_", ToString(i)>>,
             value |-> row.v[i]]]
    ELSE << [key |-> <<"value">>, value |-> row] >>

NoTable == [columns |-> <<>>, rows |-> <<>>, summary |-> Undefined, rowCount |-> -1]

\* tryCreateExcelTableFromRecord.  The objects of the universe have no
\* summary, row_count, rowCount, data, content or result member: the
\* summary is undefined, the row count the number of rows, and an object
\* that is no table itself yields null (NoTable).
tryCreateExcelTableFromRecord(record) ==
    LET columnsCandidate == Get(record, "columns")
        rowsCandidate == Get(record, "rows")
    IN  IF /\ isArray(columnsCandidate)
           /\ \A i \in 1..Len(columnsCandidate.v) : IsString(columnsCandidate.v[i])
           /\ isArray(rowsCandidate)
        THEN LET columns == [i \in 1..Len(columnsCandidate.v) |-> columnsCandidate.v[i].v]
                 rows == [i \in 1..Len(rowsCandidate.v) |->
                            normaliseExcelRow(rowsCandidate.v[i], columns)]
             IN  [columns |-> columns, rows |-> rows, summary |-> Undefined,
                  rowCount |-> Len(rows)]
        ELSE NoTable

\* Lines 829-851: the loop over the ToolMessage markers.
RECURSIVE toolMessageLoop(_, _, _)
toolMessageLoop(value, index, tables) ==
    LET toolIdx == indexOfFrom(value, ToolMarker, index)
        cursor == skipBlanks(value, toolIdx + 1)
        quoted == parseQuotedString(value, cursor)
        parsedPayload == coerceJson(Str(quoted.value))
        table == tryCreateExcelTableFromRecord(parsedPayload)
    IN  IF index > Len(value) \/ toolIdx = 0 THEN tables
        ELSE IF ~quoted.ok THEN toolMessageLoop(value, cursor + 1, tables)
        ELSE toolMessageLoop(value, quoted.endIndex,
                IF isRecord(parsedPayload) /\ table # NoTable
                THEN Append(tables, table) ELSE tables)

\* Lines 856-875: the loop over the AIMessage markers.
RECURSIVE aiMessageLoop(_, _, _)
aiMessageLoop(value, index, analyses) ==
    LET aiIdx == indexOfFrom(value, AIMarker, index)
        cursor == skipBlanks(value, aiIdx + 1)
        quoted == parseQuotedString(value, cursor)
        content == Trim(quoted.value)
    IN  IF index > Len(value) \/ aiIdx = 0 THEN analyses
        ELSE IF ~quoted.ok THEN aiMessageLoop(value, cursor + 1, analyses)
        ELSE aiMessageLoop(value, quoted.endIndex,
                IF Len(content) > 0 THEN Append(analyses, content) ELSE analyses)

parseExcelSearchOutputString(value) ==
    [tables |-> toolMessageLoop(value, 1, <<>>),
     analyses |-> aiMessageLoop(value, 1, <<>>),
     query |-> Undefined]

InitScanner ==
    /\ messages = <<>>
    /\ isStreaming = FALSE
    /\ activeConversationId = "null"
    /\ assistantIds = <<>>
    /\ openStreams = {}
    /\ idCounter = 0
    /\ seen = <<>>
    /\ acc = <<>>
    /\ steps = 0
    /\ persisted = <<>>
    /\ entries = <<>>
    /\ rpc = "idle"
    /\ DecoderIdle
    /\ ParserIdle
    /\ SidebarIdle
    /\ args \in ScannerArgs
    /\ result = <<>>
    /\ fpc = "start"

ParseExcelSearchOutput ==
    /\ fpc = "start"
    /\ result' = parseExcelSearchOutputString(ScannerText(args))
    /\ fpc' = "done"
    /\ UNCHANGED <<args, liveVars, replayVars, decoderVars, parserVars, sidebarVars>>

NextScanner == ParseExcelSearchOutput

SpecScanner == InitScanner /\ [][NextScanner]_vars

(***************************************************************************)
(* The two marker loops of parseExcelSearchOutputString, one iteration a   *)
(* step (client/utils/chat.ts 828-852 and 855-875).  `args` is the text    *)
(* scanned, `result` holds the scan index and what was collected so far,   *)
(* `fpc` the loop that runs: "tools", "analyses", and "done" after both.   *)
(***************************************************************************)
MaxScanLen == 4

ScanTokens == { ToolMarker, AIMarker, "'", "\"", "\\", " ", "x" }

\* Every text of up to MaxScanLen tokens: literals that close, that do not,
\* markers without a quote behind them, a backslash at the very end.
ScanTexts == UNION { [1..n -> ScanTokens] : n \in 0..MaxScanLen }

\* A variant of scanIteration that goes back to the marker after a literal
\* that could not be read.
scanIterationRescan(value, marker, index) ==
    LET idx == indexOfFrom(value, marker, index)
        cursor == skipBlanks(value, idx + 1)
        quoted == parseQuotedString(value, cursor)
    IN  [found |-> idx # 0,
         quoted |-> quoted,
         index |-> IF quoted.ok THEN quoted.endIndex ELSE idx]

\* Lines 830-843 and 857-870: the search for the marker, the blanks skipped,
\* the literal read and the index the next iteration starts from.
scanIteration(value, marker, index) ==
    LET idx == indexOfFrom(value, marker, index)
        cursor == skipBlanks(value, idx + 1)
        quoted == parseQuotedString(value, cursor)
    IN  [found |-> idx # 0,
         quoted |-> quoted,
         index |-> IF quoted.ok THEN quoted.endIndex ELSE cursor + 1]

InitScanLoop ==
    /\ messages = <<>>
    /\ isStreaming = FALSE
    /\ activeConversationId = "null"
    /\ assistantIds = <<>>
    /\ openStreams = {}
    /\ idCounter = 0
    /\ seen = <<>>
    /\ acc = <<>>
    /\ steps = 0
    /\ persisted = <<>>
    /\ entries = <<>>
    /\ rpc = "idle"
    /\ DecoderIdle
    /\ ParserIdle
    /\ SidebarIdle
    /\ args \in ScanTexts
    /\ result = [index |-> 1, tables |-> <<>>, analyses |-> <<>>]
    /\ fpc = "tools"

\* Lines 829-851: one iteration of the loop over the ToolMessage markers.
ToolIteration ==
    /\ fpc = "tools"
    /\ result.index <= Len(args)
    /\ LET iteration == scanIteration(args, ToolMarker, result.index)
           parsedPayload == coerceJson(Str(iteration.quoted.value))
           table == tryCreateExcelTableFromRecord(parsedPayload)
       IN  /\ iteration.found
           /\ result' = [result EXCEPT
                            !.index = iteration.index,
                            !.tables = IF iteration.quoted.ok
                                       THEN IF isRecord(parsedPayload) /\ table # NoTable
                                            THEN Append(@, table) ELSE @
                                       ELSE @]
    /\ UNCHANGED <<args, fpc, liveVars, replayVars, decoderVars, parserVars, sidebarVars>>

\* Lines 829 and 831-833: the loop over the ToolMessage markers ends, and
\* line 855 sets the index back.
ToolLoopExit ==
    /\ fpc = "tools"
    /\ \/ result.index > Len(args)
       \/ ~scanIteration(args, ToolMarker, result.index).found
    /\ result' = [result EXCEPT !.index = 1]
    /\ fpc' = "analyses"
    /\ UNCHANGED <<args, liveVars, replayVars, decoderVars, parserVars, sidebarVars>>

\* Lines 856-875: one iteration of the loop over the AIMessage markers.
AIIteration ==
    /\ fpc = "analyses"
    /\ result.index <= Len(args)
    /\ LET iteration == scanIteration(args, AIMarker, result.index)
           content == Trim(iteration.quoted.value)
       IN  /\ iteration.found
           /\ result' = [result EXCEPT
                            !.index = iteration.index,
                            !.analyses = IF iteration.quoted.ok
                                         THEN IF Len(content) > 0
                                              THEN Append(@, content) ELSE @
                                         ELSE @]
    /\ UNCHANGED <<args, fpc, liveVars, replayVars, decoderVars, parserVars, sidebarVars>>

\* Lines 856 and 858-860: the loop over the AIMessage markers ends.
AILoopExit ==
    /\ fpc = "analyses"
    /\ \/ result.index > Len(args)
       \/ ~scanIteration(args, AIMarker, result.index).found
    /\ fpc' = "done"
    /\ UNCHANGED <<args, result, liveVars, replayVars, decoderVars, parserVars, sidebarVars>>

NextScanLoop ==
    \/ ToolIteration
    \/ ToolLoopExit
    \/ AIIteration
    \/ AILoopExit

SpecScanLoop == InitScanLoop /\ [][NextScanLoop]_vars

\* The loops are synchronous code: an iteration that can run does run.
SpecScanLoopLive == SpecScanLoop /\ WF_vars(NextScanLoop)

(***************************************************************************)
(* What the scanner's properties are stated against: the text a literal's  *)
(* body denotes, unit by unit.                                             *)
(***************************************************************************)
Unescape(units) ==
    [i \in 1..Len(units) |->
        IF Len(units[i]) = 1 THEN units[i][1]
        ELSE IF units[i][2] = "n" THEN "\n"
        ELSE IF units[i][2] = "t" THEN "\t"
        ELSE IF units[i][2] = "r" THEN "\r"
        ELSE units[i][2]]

\* The text is a JSON object with an array of column names and an array of rows.
IsTableText(text) ==
    /\ IsObjectText(text)
    /\ Get(ObjectOf(text), "columns") # Undefined
    /\ Get(ObjectOf(text), "rows") # Undefined

\* The result holds one table, with the columns and the rows of the object
\* the text denotes: row r gives column c the r-th row's c-th value.
HoldsTheTableOf(text) ==
    LET columns == Get(ObjectOf(text), "columns").v
        rows == Get(ObjectOf(text), "rows").v
        table == result.tables[1]
    IN  /\ Len(result.tables) = 1
        /\ table.columns = [c \in 1..Len(columns) |-> columns[c].v]
        /\ Len(table.rows) = Len(rows)
        /\ \A r \in 1..Len(rows) :
            /\ Len(table.rows[r]) = Len(rows[r].v)
            /\ \A c \in 1..Len(rows[r].v) :
                table.rows[r][c] = [key |-> columns[c].v, value |-> rows[r].v[c]]

FinalForAbsentEntryNonEmpty ==
    [][\A s \in Sessions, text \in FinalTexts :
        (FinalResponse(s, text) /\ ~Present(messages, assistantIds[s])) =>
            messages' = IF text = <<>> THEN messages
                        ELSE Append(messages,
                                AssistantEntry(assistantIds[s], text, FALSE, <<>>))]_vars

(***************************************************************************)
(* C20 as amended: final_response for an absent entry leaves the           *)
(* transcript unchanged when the final text is empty or all whitespace;    *)
(* otherwise it appends one assistant entry with the final text as         *)
(* received, not streaming, without tool events.                           *)
(***************************************************************************)
FinalForAbsentEntry ==
    [][\A s \in Sessions, text \in FinalTexts :
        (FinalResponse(s, text) /\ ~Present(messages, assistantIds[s])) =>
            messages' = IF IsBlank(text) THEN messages
                        ELSE Append(messages,
                                AssistantEntry(assistantIds[s], text, FALSE, <<>>))]_vars

\* The first submit's placeholder was pruned by done, a second submit was
\* made, and a final_response of the first stream then created the first
\* submit's entry: it stands after the second submit's entry.
FinalForAbsentEntryWitness ==
    /\ Len(assistantIds) = 2
    /\ seen[1] = {"done", "final_response"}
    /\ Present(messages, assistantIds[1])
    /\ Present(messages, assistantIds[2])
    /\ messages[Len(messages)] =
            AssistantEntry(assistantIds[1], <<" ", "a">>, FALSE, <<>>)

(***************************************************************************)
(* What done makes of a transcript, by the cases of the claim: `blank`     *)
(* tells which contents count as empty.                                    *)
(***************************************************************************)
DoneOutcome(list, id, blank(_)) ==
    IF ~Present(list, id) THEN list
    ELSE LET i == CHOOSE k \in AssistantIndexes(list, id) : TRUE
         IN  IF blank(list[i].content) /\ list[i].toolEvents = <<>>
             THEN SubSeq(list, 1, i - 1) \o SubSeq(list, i + 1, Len(list))
             ELSE [list EXCEPT ![i].isStreaming = FALSE]

IsEmptyText(text) == text = <<>>

(***************************************************************************)
(* C21.  done transition, as claimed: done leaves the transcript unchanged *)
(* when the addressed entry is absent, removes the entry when its content  *)
(* has length 0 and it has no tool events, and in every other case         *)
(* (whitespace-only content included) keeps it with the same content and   *)
(* tool events and isStreaming false; a second done changes nothing.       *)
(***************************************************************************)
DoneKeepsWhitespaceContent ==
    [][\A s \in Sessions :
        Done(s) =>
            /\ messages' = DoneOutcome(messages, assistantIds[s], IsEmptyText)
            /\ DoneOutcome(messages', assistantIds[s], IsEmptyText) = messages']_vars

(***************************************************************************)
(* C21 as amended: done leaves the transcript unchanged when the addressed *)
(* entry is absent, removes the entry when its content is empty or all     *)
(* whitespace and it has no tool events, and in every other case keeps it  *)
(* with the same content and tool events and isStreaming false; a second   *)
(* done changes nothing.                                                   *)
(***************************************************************************)
DoneTransition ==
    [][\A s \in Sessions :
        Done(s) =>
            /\ messages' = DoneOutcome(messages, assistantIds[s], IsBlank)
            /\ DoneOutcome(messages', assistantIds[s], IsBlank) = messages']_vars

\* done found a streaming entry with whitespace-only content and one tool
\* event and kept it, finalized.
DoneTransitionWitness ==
    \E s \in Sessions :
        /\ seen[s] = {"response_chunk", "tool_call", "done"}
        /\ acc[s] = <<" ">>
        /\ Present(messages, assistantIds[s])
        /\ ContentOf(messages, assistantIds[s]) = <<" ">>
        /\ Len(ToolEventsOf(messages, assistantIds[s])) = 1
        /\ ~TheEntry(messages, assistantIds[s]).isStreaming

(***************************************************************************)
(* C22.  tool_call transition: a tool_call appends exactly one tool event, *)
(* running and of the called name, as the last of the addressed entry's    *)
(* tool events; the events that were there keep their fields and their     *)
(* order; a present entry keeps its content and its isStreaming flag, an   *)
(* absent one is created streaming with empty content.                     *)
(***************************************************************************)
ToolCallTransition ==
    [][\A s \in Sessions, n \in ToolNames, i \in ToolInputs :
        LET id == assistantIds[s]
            before == ToolEventsOf(messages, id)
            after == ToolEventsOf(messages', id)
        IN  ToolCall(s, n, i) =>
                /\ Cardinality(AssistantIndexes(messages', id)) = 1
                /\ Len(messages') = IF Present(messages, id) THEN Len(messages)
                                    ELSE Len(messages) + 1
                /\ Len(after) = Len(before) + 1
                /\ after[Len(after)].status = "running"
                /\ after[Len(after)].toolName = n
                /\ \A k \in 1..Len(before) : after[k] = before[k]
                /\ IF Present(messages, id)
                   THEN /\ ContentOf(messages', id) = ContentOf(messages, id)
                        /\ TheEntry(messages', id).isStreaming
                              = TheEntry(messages, id).isStreaming
                   ELSE /\ ContentOf(messages', id) = <<>>
                        /\ TheEntry(messages', id).isStreaming]_vars

\* Two tool_calls of different names on an entry that holds a chunk: the
\* events stand in the order of the calls.
ToolCallTransitionWitness ==
    \E s \in Sessions :
        /\ seen[s] = {"response_chunk", "tool_call"}
        /\ ContentOf(messages, assistantIds[s]) = <<"a">>
        /\ TheEntry(messages, assistantIds[s]).isStreaming
        /\ Len(ToolEventsOf(messages, assistantIds[s])) = 2
        /\ LET events == ToolEventsOf(messages, assistantIds[s])
           IN  /\ events[1].toolName = "search" /\ events[1].id = GeneratedId(3)
               /\ events[2].toolName = "tavily_search" /\ events[2].id = GeneratedId(4)
               /\ events[1].status = "running" /\ events[2].status = "running"

(***************************************************************************)
(* C23.  As claimed: the lifecycle of an entry is monotone.  An assistant  *)
(* entry that has isStreaming false never has isStreaming true again,      *)
(* whatever event is applied next, and an entry has isStreaming true only  *)
(* while the session-level isStreaming flag is true.                       *)
(***************************************************************************)
EntryLifecycleMonotone ==
    /\ [][\A i \in 1..Len(messages) :
            (/\ messages[i].role = "assistant"
             /\ ~messages[i].isStreaming
             /\ Present(messages', messages[i].id))
                => ~TheEntry(messages', messages[i].id).isStreaming]_vars
    /\ [](\A i \in 1..Len(messages) : messages[i].isStreaming => isStreaming)

IsPrefix(a, b) == Len(a) <= Len(b) /\ SubSeq(b, 1, Len(a)) = a

(***************************************************************************)
(* C24.  Content is append-only while streaming: for every step after      *)
(* which an assistant entry is present with isStreaming true, the content  *)
(* it had before the step is a prefix of the content it has after; and a   *)
(* user entry stays in the transcript, once, with its content, whatever    *)
(* the step.                                                               *)
(***************************************************************************)
ContentAppendOnly ==
    [][\A i \in 1..Len(messages) :
        IF messages[i].role = "user"
        THEN Cardinality({ j \in 1..Len(messages') :
                            messages'[j].id = messages[i].id }) = 1
             /\ \E j \in 1..Len(messages') : messages'[j] = messages[i]
        ELSE (/\ Present(messages', messages[i].id)
              /\ TheEntry(messages', messages[i].id).isStreaming)
                => IsPrefix(messages[i].content,
                            ContentOf(messages', messages[i].id))]_vars

\* A finalized entry with content " a" got a chunk: it is streaming again
\* and its content is " a" followed by the chunk.
ContentAppendOnlyWitness ==
    \E s \in Sessions :
        /\ seen[s] = {"final_response", "response_chunk"}
        /\ acc[s] = <<"a">>
        /\ Present(messages, assistantIds[s])
        /\ TheEntry(messages, assistantIds[s]).isStreaming
        /\ ContentOf(messages, assistantIds[s]) = <<" ", "a", "a">>

(***************************************************************************)
(* The two producers of a transcript side by side: a behaviour is either a *)
(* run of the live handler (the replay builder idle) or one call of the    *)
(* replay builder on a persisted-message list.                             *)
(***************************************************************************)
InitTranscript == Init \/ InitReplay

NextTranscript ==
    \/ rpc = "idle" /\ \E value \in UserInputs : Submit(value)
    \/ rpc = "idle" /\ \E s \in Sessions : HandleEvent(s)
    \/ rpc = "idle" /\ \E s \in Sessions : StreamEnd(s)
    \/ BuildChatEntries

SpecTranscript == InitTranscript /\ [][NextTranscript]_vars

DistinctIds(list) ==
    \A i, j \in 1..Len(list) : i # j => list[i].id # list[j].id

(***************************************************************************)
(* C25.  Entry ids are unique within a transcript: the live transcript     *)
(* never holds two entries of one id, so at most one entry per             *)
(* assistantMessageId, and the entries buildChatEntriesFromDetail returns  *)
(* have pairwise distinct ids.                                             *)
(***************************************************************************)
EntryIdsUnique ==
    /\ DistinctIds(messages)
    /\ \A s \in Sessions : Cardinality(AssistantIndexes(messages, assistantIds[s])) <= 1
    /\ rpc = "done" => DistinctIds(entries)

\* A tool message, a user message and an assistant message: the output is
\* the placeholder host made at the user message, the user entry and the
\* assistant entry, under three ids.
EntryIdsUniqueWitness ==
    /\ rpc = "done"
    /\ Len(persisted) = 3
    /\ Len(entries) = 3
    /\ entries[1].id = <<"c1", "-", "assistant", "-", "1">>
    /\ entries[2].id = <<"c1", "-", "1">>
    /\ entries[3].id = <<"c1", "-", "2">>

(***************************************************************************)
(* What the replay properties read off the input and the output.           *)
(***************************************************************************)
IsToolMessage(message) == message.kind = "tool" \/ message.role = "tool"

ToolMessages(list) == SelectSeq(list, IsToolMessage)

\* The tool events of a transcript, entry after entry.
AllToolEvents(list) == Flatten([i \in 1..Len(list) |-> list[i].toolEvents])

\* The 0-based indexes of the messages that are not tool messages.
EntryMessageIndexes(list) == { i - 1 : i \in { k \in 1..Len(list) : ~IsToolMessage(list[k]) } }

\* The ids ensureAssistantHost gives a placeholder.
PlaceholderIds(list) == { <<"c1", "-", "assistant", "-", ToString(i)>> : i \in 0..Len(list) }

(***************************************************************************)
(* C26.  Replay rule 1: each persisted message with kind tool or role tool *)
(* becomes exactly one tool event, in the order of the messages, and no    *)
(* entry of its own: every entry has the id of a message that is not a     *)
(* tool message, or a placeholder's.  The event's status is error when     *)
(* tool_status is error, otherwise completed when tool_status is complete  *)
(* or tool_output is not undefined, otherwise running; on tool_status      *)
(* error the detail is the message content when that is not empty.         *)
(***************************************************************************)
ReplayToolMessages ==
    rpc = "done" =>
        LET toolMessages == ToolMessages(persisted)
            events == AllToolEvents(entries)
        IN  /\ Len(events) = Len(toolMessages)
            /\ \A i \in 1..Len(entries) :
                \/ entries[i].id \in PlaceholderIds(persisted)
                \/ \E k \in EntryMessageIndexes(persisted) :
                        entries[i].id = <<"c1", "-", ToString(k)>>
            /\ \A k \in 1..Len(toolMessages) :
                /\ events[k].status =
                       IF toolMessages[k].tool_status = "error" THEN "error"
                       ELSE IF \/ toolMessages[k].tool_status = "complete"
                               \/ toolMessages[k].tool_output # Undefined
                            THEN "completed"
                       ELSE "running"
                /\ (toolMessages[k].tool_status = "error" /\ toolMessages[k].content # <<>>)
                      => events[k].detail = Str(toolMessages[k].content)

\* Three tool messages and nothing else: one placeholder entry with a
\* running event, an error event and an event completed by its output, which
\* is null, alone.
ReplayToolMessagesWitness ==
    /\ rpc = "done"
    /\ Len(persisted) = 3
    /\ persisted[1].tool_status = "start" /\ persisted[1].tool_output = Undefined
    /\ persisted[2].tool_status = "error" /\ persisted[2].content = <<"e">>
    /\ persisted[3].tool_status = "undefined" /\ persisted[3].tool_output = Null
    /\ Len(entries) = 1
    /\ Len(entries[1].toolEvents) = 3
    /\ entries[1].toolEvents[1].status = "running"
    /\ entries[1].toolEvents[2].status = "error"
    /\ entries[1].toolEvents[2].detail = Str(<<"e">>)
    /\ entries[1].toolEvents[3].status = "completed"

(***************************************************************************)
(* The loop of the replay builder, iteration by iteration: the state       *)
(* before the message of 0-based index k is processed, and the state after.*)
(***************************************************************************)
LoopStateBefore(k) ==
    replayLoop([entries |-> <<>>, pending |-> <<>>], SubSeq(persisted, 1, k), "c1", 0)

LoopStateAfter(k) == replayStep(LoopStateBefore(k), persisted[k + 1], "c1", k)

IsUserMessage(message) == ~IsToolMessage(message) /\ message.role = "user"

IsAssistantMessage(message) == ~IsToolMessage(message) /\ message.role = "assistant"

AssistantPositions(list) == { i \in 1..Len(list) : list[i].role = "assistant" }

Latest(indexes) == CHOOSE i \in indexes : \A j \in indexes : j <= i

(***************************************************************************)
(* C27.  Replay rule 2: when a user message is processed while tool events *)
(* are pending, they are appended, in order, to the tool events of the     *)
(* last assistant entry of the output; when the output has no assistant    *)
(* entry, an assistant placeholder with empty content is appended and gets *)
(* them; the user entry is appended after that, last, and the pending      *)
(* buffer is empty afterwards.  Nothing else of the output changes.        *)
(***************************************************************************)
ReplayUserFlushesPending ==
    rpc = "done" =>
        \A k \in 0..(Len(persisted) - 1) :
            LET before == LoopStateBefore(k)
                after == LoopStateAfter(k)
                hosts == AssistantPositions(before.entries)
                user == UserEntry(<<"c1", "-", ToString(k)>>, persisted[k + 1].content)
            IN  (IsUserMessage(persisted[k + 1]) /\ before.pending # <<>>) =>
                    /\ after.pending = <<>>
                    /\ after.entries =
                         IF hosts # {}
                         THEN Append(
                                [before.entries EXCEPT ![Latest(hosts)].toolEvents =
                                    @ \o before.pending],
                                user)
                         ELSE before.entries
                              \o << AssistantEntry(<<"c1", "-", "assistant", "-", ToString(k)>>,
                                                   <<>>, FALSE, before.pending),
                                    user >>

\* Two assistant messages, a tool message, a user message: the tool event
\* is on the second assistant entry, the user entry last.
ReplayUserFlushesPendingWitness ==
    /\ rpc = "done"
    /\ Len(persisted) = 4
    /\ IsAssistantMessage(persisted[1]) /\ IsAssistantMessage(persisted[2])
    /\ IsToolMessage(persisted[3])
    /\ IsUserMessage(persisted[4])
    /\ Len(entries) = 3
    /\ entries[1].toolEvents = <<>>
    /\ Len(entries[2].toolEvents) = 1
    /\ entries[3].role = "user"

\* What an assistant message makes of the loop state `before`, the entry
\* taking `content`.
AssistantOutcome(before, k, content) ==
    LET list == before.entries
        last == Len(list)
    IN  IF last > 0 /\ list[last].role = "assistant" /\ list[last].content = <<>>
        THEN [list EXCEPT ![last] =
                [@ EXCEPT !.content = content,
                          !.isStreaming = FALSE,
                          !.toolEvents = @ \o before.pending]]
        ELSE Append(list,
                    AssistantEntry(<<"c1", "-", ToString(k)>>, content, FALSE,
                                   before.pending))

IsSuffix(a, b) == Len(a) <= Len(b) /\ SubSeq(b, Len(b) - Len(a) + 1, Len(b)) = a

(***************************************************************************)
(* C29.  Replay rule 5, as claimed: tool events still pending after the    *)
(* last message end up, in order, as the last tool events of an assistant  *)
(* entry that is the last entry of the output; no user entry follows the   *)
(* entry they are attached to.                                             *)
(***************************************************************************)
ReplayTrailingEventsAtTail ==
    rpc = "done" =>
        LET pending == LoopStateBefore(Len(persisted)).pending
        IN  pending # <<>> =>
                /\ entries # <<>>
                /\ entries[Len(entries)].role = "assistant"
                /\ IsSuffix(pending, entries[Len(entries)].toolEvents)

ContentsOf(list) == [i \in 1..Len(list) |-> list[i].content]

UserEntries(list) == SelectSeq(list, LAMBDA entry : entry.role = "user")

(***************************************************************************)
(* C30.  Replay preserves user messages: the user entries of the output    *)
(* are, in order, the user messages of the input, one entry per message    *)
(* with the message's content as it is, whether or not tool events were    *)
(* pending when the message was processed.                                 *)
(***************************************************************************)
ReplayPreservesUserMessages ==
    rpc = "done" =>
        ContentsOf(UserEntries(entries)) = ContentsOf(SelectSeq(persisted, IsUserMessage))

\* A tool message, a whitespace-only user message, the same tool message
\* again, a user message "a": both user entries are there, the first with
\* its blank, each behind the host of the events that were pending.
ReplayPreservesUserMessagesWitness ==
    /\ rpc = "done"
    /\ Len(persisted) = 4
    /\ IsToolMessage(persisted[1]) /\ IsToolMessage(persisted[3])
    /\ IsUserMessage(persisted[2]) /\ persisted[2].content = <<" ">>
    /\ IsUserMessage(persisted[4]) /\ persisted[4].content = <<"a">>
    /\ Len(entries) = 3
    /\ Len(entries[1].toolEvents) = 2
    /\ entries[2].content = <<" ">>
    /\ entries[3].content = <<"a">>

(***************************************************************************)
(* C31.  Every entry buildChatEntriesFromDetail returns has isStreaming    *)
(* false, and no user entry, in its output or in a live transcript, has    *)
(* tool events.                                                            *)
(***************************************************************************)
ReplayedEntriesFinalized ==
    /\ rpc = "done" =>
            \A i \in 1..Len(entries) :
                /\ ~entries[i].isStreaming
                /\ entries[i].role = "user" => entries[i].toolEvents = <<>>
    /\ \A i \in 1..Len(messages) :
            messages[i].role = "user" => messages[i].toolEvents = <<>>

\* A user message, a tool message, a user message: the event pending at
\* the second user message is on a placeholder between the two user
\* entries, not on the user entry that was last.
ReplayedEntriesFinalizedWitness ==
    /\ rpc = "done"
    /\ Len(persisted) = 3
    /\ IsUserMessage(persisted[1]) /\ IsToolMessage(persisted[2])
    /\ IsUserMessage(persisted[3])
    /\ Len(entries) = 3
    /\ entries[1].role = "user" /\ entries[3].role = "user"
    /\ entries[2].role = "assistant" /\ Len(entries[2].toolEvents) = 1

(***************************************************************************)
(* C32.  As claimed: when the stream ends with a buffer that is not empty, *)
(* one more payload is handed to onEvent.                                  *)
(***************************************************************************)
FinalFlushDeliversTail ==
    [][(dpc = "reading" /\ dpc' = "ended") =>
            \A raw \in WireLines, ranUpdater \in BOOLEAN :
                ReadTail(raw, ranUpdater) => Len(delivered') = Len(delivered) + 1]_vars

\* The step is the tail flush of the buffer `raw`.  A tail flush hands to
\* the parser no line or the trimmed tail, which is read off the step
\* before the action is.
TailFlushOf(raw) ==
    /\ lines' = lines \/ lines' = Append(lines, Trim(raw))
    /\ \E ranUpdater \in BOOLEAN : ReadTail(raw, ranUpdater)

\* What the tail flush of the buffer `raw` leaves.
TailFlushed(raw) ==
    LET tail == Trim(raw)
    IN  /\ tail = <<>> => (lines' = lines /\ delivered' = delivered /\ HandlerUntouched)
        /\ tail # <<>> => lines' = Append(lines, tail)
        /\ (tail # <<>> /\ JsonParses(tail)) =>
                delivered' = Append(delivered, JsonParse(tail))
        /\ (tail # <<>> /\ ~JsonParses(tail)) =>
                (delivered' = delivered /\ HandlerUntouched)
        /\ onErrors' = onErrors

(***************************************************************************)
(* C32 as amended: when the stream ends, the buffer that is left is        *)
(* trimmed; when it is then not empty it is handed to JSON.parse once, and *)
(* when it is JSON its payload is handed to onEvent once, after the        *)
(* payloads of all complete lines; a tail that is not JSON hands nothing   *)
(* to onEvent and changes nothing of the handler; when the buffer is empty *)
(* or blank nothing further is parsed or delivered.  Nothing is delivered  *)
(* after the function has returned.                                        *)
(***************************************************************************)
FinalFlush ==
    /\ [][(dpc = "reading" /\ dpc' = "ended") =>
            \A raw \in WireLines \cup {<<>>} : TailFlushOf(raw) => TailFlushed(raw)]_vars
    /\ [][dpc = "ended" => (delivered' = delivered /\ lines' = lines)]_vars

\* A complete response_chunk line, then a final_response left in the
\* buffer without a newline: both were handed to onEvent, in this order.
FinalFlushWitness ==
    /\ dpc = "ended"
    /\ onErrors = 0
    /\ Len(lines) = 2
    /\ IsEvent(lines[1], "response_chunk")
    /\ IsEvent(lines[2], "final_response") /\ Has(lines[2], "text")
    /\ delivered = PayloadsOf(lines)
    /\ Len(delivered) = 2
    /\ ContentOf(messages, assistantIds[1]) = <<"a">>
    /\ ~isStreaming

(***************************************************************************)
(* C33.  When the response is not 2xx or has no body, nothing is handed to *)
(* onEvent, before or after; onError is called once, and the handler       *)
(* applies one error event: the session's entry gets the message of the    *)
(* failure as content and one error tool event, and streaming ends, of     *)
(* the entry and of the session.  Nothing happens after the function has   *)
(* returned.                                                               *)
(***************************************************************************)
HttpFailureReported ==
    /\ [][\A response \in FailingResponses :
            HttpFailure(response) =>
                LET entry == TheEntry(messages', assistantIds[1])
                IN  /\ delivered = <<>> /\ delivered' = <<>>
                    /\ onErrors = 0 /\ onErrors' = 1
                    /\ dpc' = "ended"
                    /\ Len(messages') = Len(messages)
                    /\ messages'[1] = messages[1]
                    /\ Cardinality(AssistantIndexes(messages', assistantIds[1])) = 1
                    /\ entry.content = httpErrorMessage(response)
                    /\ Len(entry.toolEvents) = 1
                    /\ entry.toolEvents[1].status = "error"
                    /\ entry.toolEvents[1].detail = Str(httpErrorMessage(response))
                    /\ ~entry.isStreaming
                    /\ ~isStreaming'
                    /\ refreshes' = refreshes]_vars
    /\ [][dpc = "ended" =>
            (delivered' = delivered /\ onErrors' = onErrors /\ messages' = messages)]_vars

\* The server answers 500: the entry submit made shows the failure.
HttpFailureReportedWitness ==
    /\ dpc = "ended"
    /\ onErrors = 1
    /\ delivered = <<>>
    /\ lines = <<>>
    /\ ~isStreaming
    /\ Len(messages) = 2
    /\ messages[2].content = <<"Request failed with status ", "500">>
    /\ Len(messages[2].toolEvents) = 1
    /\ messages[2].toolEvents[1].status = "error"

(***************************************************************************)
(* The retrieval formatters (client/utils/chat.ts): formatDocumentEvent    *)
(* (lines 913-996) and formatMemoryEvent (999-1085), on the output         *)
(* completeToolEvent hands them.  The results carry no score, timestamp,   *)
(* chunk_index, full_text or assistant field, so the parts of a section    *)
(* made from these are absent.                                             *)
(***************************************************************************)
MaxResults == 4

\* What a results list holds: two records, and null, which is no record.
RetrievalItems ==
    { [t |-> "object", source |-> Str(<<"s">>), snippet |-> Str(<<"p">>),
       user |-> Str(<<"u">>)],
      [t |-> "object", source |-> Undefined, snippet |-> Str(<<" ">>), user |-> Undefined],
      Null }

ResultLists == UNION { [1..n -> RetrievalItems] : n \in 0..MaxResults }

RetrievalMessages == { Undefined, Str(<<>>), Str(<<"m">>) }

\* The parsed outputs: an object with results and message, a bare array,
\* and undefined.
ParsedOutputs ==
    { [t |-> "object", results |-> r, message |-> m] :
        r \in { Arr(l) : l \in ResultLists } \cup {Undefined}, m \in RetrievalMessages }
    \cup { Arr(l) : l \in ResultLists }
    \cup { Undefined }

RetrievalArgs ==
    [toolName : {"document_retriever", "memory_retriever"}, parsed : ParsedOutputs]

\* Lines 915-919, 1001-1005.
resultsArrayOf(parsed) ==
    IF isRecord(parsed) /\ isArray(parsed.results) THEN parsed.results.v
    ELSE IF isArray(parsed) THEN parsed.v
    ELSE <<>>

\* Lines 920, 1006.
messageOf(parsed) ==
    IF isRecord(parsed) /\ IsString(parsed.message) THEN parsed.message ELSE Undefined

\* `message ? ... : ...`: a string that is not empty.
truthy(message) == message # Undefined /\ message.v # <<>>

\* Lines 460-470, a text as the sequence of its pieces.
RECURSIVE joinWith(_, _)
joinWith(texts, separator) ==
    IF texts = <<>> THEN <<>>
    ELSE IF Len(texts) = 1 THEN texts[1]
    ELSE texts[1] \o separator \o joinWith(Tail(texts), separator)

sectionsToDetail(sections) ==
    LET entryOf(section) ==
            Trim((IF section.title # <<>> THEN section.title \o <<"\n">> ELSE <<>>)
                 \o joinWith([i \in 1..Len(section.lines) |-> <<"-", " ">> \o section.lines[i]],
                             <<"\n">>))
        mapped == [i \in 1..Len(sections) |-> entryOf(sections[i])]
    IN  joinWith(SelectSeq(mapped, LAMBDA entry : entry # <<>>), <<"\n", "\n">>)

\* Lines 940-967: the section of one record, `position` being index + 1.
documentSection(record, position) ==
    LET source == IF IsString(record.source) /\ Trim(record.source.v) # <<>>
                  THEN Trim(record.source.v)
                  ELSE <<"Document ", ToString(position)>>
        snippet == IF IsString(record.snippet) THEN Trim(record.snippet.v) ELSE <<>>
    IN  [title |-> <<ToString(position), ".", " ">> \o source,
         lines |-> << IF snippet # <<>> THEN snippet
                      ELSE <<"No preview text available.">> >>]

\* Lines 1034-1066.
memorySection(record, position) ==
    LET userText == IF IsString(record.user) THEN Trim(record.user.v) ELSE <<>>
    IN  [title |-> <<"Match ", ToString(position)>>,
         lines |-> << IF userText # <<>> THEN <<"You: ">> \o shorten(userText, 200)
                      ELSE <<"No transcript available.">> >>]

\* The section the formatter of `toolName` makes of a record.
sectionOf(toolName, record, position) ==
    IF toolName = "document_retriever" THEN documentSection(record, position)
    ELSE memorySection(record, position)

\* A variant of retrievalSections that makes a section of every result.
retrievalSectionsUncut(resultsArray, toolName) ==
    LET positions == SelectSeq([k \in 1..Len(resultsArray) |-> k],
                               LAMBDA k : isRecord(resultsArray[k]))
    IN  [i \in 1..Len(positions) |->
            sectionOf(toolName, resultsArray[positions[i]], positions[i])]

\* resultsArray.slice(0, 3).forEach(...): a section for each of the first
\* three results that is a record (lines 934-967, 1029-1066).
retrievalSections(resultsArray, toolName) ==
    LET firstThree == SubSeq(resultsArray, 1, IF Len(resultsArray) < 3 THEN Len(resultsArray)
                                              ELSE 3)
        positions == SelectSeq([k \in 1..Len(firstThree) |-> k],
                               LAMBDA k : isRecord(firstThree[k]))
    IN  [i \in 1..Len(positions) |->
            sectionOf(toolName, firstThree[positions[i]], positions[i])]

\* Lines 978-990, 1069-1081: the sections after those of the matches.
trailingSections(remaining, message, singular, plural) ==
    (IF remaining > 0
     THEN << [title |-> <<>>,
              lines |-> << <<"...", " ", ToString(remaining),
                             IF remaining = 1 THEN singular ELSE plural,
                             " not shown.">> >>] >>
     ELSE <<>>)
    \o (IF truthy(message) THEN << [title |-> <<>>, lines |-> <<message.v>>] >> ELSE <<>>)

\* Lines 970-975, 1015-1020: detail and detailSections when nothing is shown.
retrievalFallback(message, text) ==
    [detail |-> IF message # Undefined THEN message.v ELSE <<text>>,
     hasSections |-> truthy(message),
     detailSections |-> IF truthy(message)
                        THEN << [title |-> <<>>, lines |-> <<message.v>>] >> ELSE <<>>]

formatDocumentEvent(parsed) ==
    LET resultsArray == resultsArrayOf(parsed)
        message == messageOf(parsed)
        sections == retrievalSections(resultsArray, "document_retriever")
        all == sections \o trailingSections(Len(resultsArray) - Len(sections), message,
                                            " additional result", " additional results")
    IN  IF sections = <<>>
        THEN retrievalFallback(message, "No relevant documents were found.")
        ELSE [detail |-> sectionsToDetail(all), hasSections |-> TRUE, detailSections |-> all]

formatMemoryEvent(parsed) ==
    LET resultsArray == resultsArrayOf(parsed)
        message == messageOf(parsed)
        sections == retrievalSections(resultsArray, "memory_retriever")
        all == sections \o trailingSections(Len(resultsArray) - Len(sections), message,
                                            " additional memory match",
                                            " additional memory matches")
    IN  IF resultsArray = <<>>
        THEN retrievalFallback(message, "No prior memories matched this query.")
        ELSE [detail |-> sectionsToDetail(all), hasSections |-> TRUE, detailSections |-> all]

InitRetrieval ==
    /\ messages = <<>>
    /\ isStreaming = FALSE
    /\ activeConversationId = "null"
    /\ assistantIds = <<>>
    /\ openStreams = {}
    /\ idCounter = 0
    /\ seen = <<>>
    /\ acc = <<>>
    /\ steps = 0
    /\ persisted = <<>>
    /\ entries = <<>>
    /\ rpc = "idle"
    /\ DecoderIdle
    /\ ParserIdle
    /\ SidebarIdle
    /\ args \in RetrievalArgs
    /\ result = <<>>
    /\ fpc = "start"

\* completeToolEvent, lines 381-384.
FormatRetrieval ==
    /\ fpc = "start"
    /\ result' = IF args.toolName = "document_retriever" THEN formatDocumentEvent(args.parsed)
                 ELSE formatMemoryEvent(args.parsed)
    /\ fpc' = "done"
    /\ UNCHANGED <<args, liveVars, replayVars, decoderVars, parserVars, sidebarVars>>

NextRetrieval == FormatRetrieval

SpecRetrieval == InitRetrieval /\ [][NextRetrieval]_vars

(***************************************************************************)
(* What the formatters' properties read off a result.                      *)
(***************************************************************************)
ResultsGiven == resultsArrayOf(args.parsed)

MessageGiven == messageOf(args.parsed)

IsMatchSection(section) == section.title # <<>>

IsAdditionalSection(section) ==
    section.title = <<>> /\ section.lines[1] # <<>> /\ section.lines[1][1] = "..."

MatchSections == SelectSeq(result.detailSections, IsMatchSection)

AdditionalSections == SelectSeq(result.detailSections, IsAdditionalSection)

\* The number a section of a match is titled with, and the number an
\* "additional ... not shown" section states.
PositionOf(section) ==
    IF args.toolName = "document_retriever" THEN section.title[1] ELSE section.title[2]

StatedNumber(section) == section.lines[1][3]

NoResultsText ==
    IF args.toolName = "document_retriever" THEN <<"No relevant documents were found.">>
    ELSE <<"No prior memories matched this query.">>

FallbackDetail == IF MessageGiven # Undefined THEN MessageGiven.v ELSE NoResultsText

\* The positions, among the first three, of the results that are records.
ShownPositions ==
    LET n == Len(ResultsGiven)
    IN  SelectSeq([k \in 1..(IF n < 3 THEN n ELSE 3) |-> k],
                  LAMBDA k : isRecord(ResultsGiven[k]))

(***************************************************************************)
(* C34.  As claimed: for a results list of length n there is one section   *)
(* for each of the first min(n, 3) results, an "additional ... not shown"  *)
(* section exactly when n > 3, stating n - 3, and for n = 0 the detail is  *)
(* the message or the static text.                                         *)
(***************************************************************************)
RetrievalShowsFirstThree ==
    fpc = "done" =>
        LET n == Len(ResultsGiven)
        IN  /\ Len(MatchSections) = (IF n < 3 THEN n ELSE 3)
            /\ (AdditionalSections # <<>>) <=> (n > 3)
            /\ \A i \in 1..Len(AdditionalSections) :
                    StatedNumber(AdditionalSections[i]) = ToString(n - 3)
            /\ n = 0 => result.detail = FallbackDetail

(***************************************************************************)
(* C34 as amended: of the first min(n, 3) results those that are objects   *)
(* get a section each, in order and titled with their position in the      *)
(* list, the others none, so there are p <= min(n, 3) sections of matches, *)
(* the first of the detail sections.  When no section is shown (document   *)
(* formatter: p = 0; memory formatter: n = 0) the detail is the message    *)
(* or the static text and there is no "additional" section.  Otherwise     *)
(* there is one "additional ... not shown" section exactly when n - p > 0  *)
(* and it states n - p, the count of results not rendered: when the first  *)
(* three results are objects, exactly when n > 3, stating n - 3.           *)
(***************************************************************************)
RetrievalSections ==
    fpc = "done" =>
        LET n == Len(ResultsGiven)
            p == Len(ShownPositions)
            nothingShown == IF args.toolName = "document_retriever" THEN p = 0 ELSE n = 0
        IN  /\ Len(MatchSections) = p
            /\ p <= 3
            /\ \A i \in 1..p :
                    /\ IsMatchSection(result.detailSections[i])
                    /\ PositionOf(result.detailSections[i]) = ToString(ShownPositions[i])
            /\ nothingShown =>
                    /\ result.detail = FallbackDetail
                    /\ AdditionalSections = <<>>
            /\ ~nothingShown =>
                    /\ result.hasSections
                    /\ Len(AdditionalSections) = (IF n - p > 0 THEN 1 ELSE 0)
                    /\ \A i \in 1..Len(AdditionalSections) :
                            StatedNumber(AdditionalSections[i]) = ToString(n - p)
                    /\ result.detail = sectionsToDetail(result.detailSections)
            /\ (p = 3 \/ p = n) =>
                    /\ (AdditionalSections # <<>>) <=> (n > 3)
                    /\ \A i \in 1..Len(AdditionalSections) :
                            StatedNumber(AdditionalSections[i]) = ToString(n - 3)

\* Four documents and a message: three sections of matches, "1 additional
\* result not shown", the message.
RetrievalSectionsWitness ==
    /\ fpc = "done"
    /\ args.toolName = "document_retriever"
    /\ Len(ResultsGiven) = 4
    /\ \A k \in 1..4 : isRecord(ResultsGiven[k])
    /\ MessageGiven = Str(<<"m">>)
    /\ Len(result.detailSections) = 5
    /\ Len(MatchSections) = 3
    /\ StatedNumber(result.detailSections[4]) = "1"
    /\ result.detailSections[5].lines = << <<"m">> >>

(***************************************************************************)
(* The stream's specification for what has to happen in the end: a         *)
(* pending fetch or reader.read() resolves or rejects, so the read loop    *)
(* goes on until streamChatResponse has returned.  Nothing runs in submit  *)
(* after the await of streamChatResponse (useChatPage.ts, lines 348-362).  *)
(***************************************************************************)
SpecStreamLive == InitStream /\ [][NextStream]_vars /\ WF_vars(NextStream)

\* The session's entry is in the transcript and is marked as streaming.
SessionEntryStreaming ==
    /\ Present(messages, assistantIds[1])
    /\ TheEntry(messages, assistantIds[1]).isStreaming

(***************************************************************************)
(* C35.  As claimed: whenever the stream of a submitted message has ended  *)
(* (end of stream, transport failure or HTTP failure), isStreaming         *)
(* eventually is false and the session's entry, when present, is not       *)
(* marked as streaming.                                                    *)
(***************************************************************************)
StreamingFlagCleared == (dpc = "ended") ~> (~isStreaming /\ ~SessionEntryStreaming)

(***************************************************************************)
(* The conversation panel next to the live handler: selectConversation and *)
(* loadConversation (useActiveConversation.ts, lines 42-86),               *)
(* startNewConversation and handleDeleteConversation (useChatPage.ts,      *)
(* lines 367-450), createConversation and deleteConversation               *)
(* (useConversations.ts, lines 57-90).  Each awaits a call of the          *)
(* conversation service; the call that is awaited is pendingCall, and one  *)
(* call is awaited at a time.  The buttons of the panel are disabled       *)
(* while isStreaming or isLoadingConversation (ChatHistoryPanel.tsx, lines *)
(* 66-113); the composer is disabled while isStreaming only                *)
(* (ChatComposer.tsx, lines 20-27).  A message is submitted only with a    *)
(* conversation active.  The calls of the service succeed.                 *)
(***************************************************************************)
ConversationIds == { "c1", "c2", "c3" }

\* The messages getConversation can answer with.
Details ==
    { <<>>, << MessageOf("user", <<"a">>), MessageOf("assistant", <<"a">>) >> }

Listed(list, id) == \E i \in 1..Len(list) : list[i] = id

Without(list, id) == SelectSeq(list, LAMBDA other : other # id)

isLoadingConversation == pendingCall.op = "load"

\* disableInteractions (useChatPage.ts, line 452).
disableInteractions == isStreaming \/ isLoadingConversation

\* Entries of the transcript that a stream started before are the wrong
\* place for: the sessions whose stream is open are marked.
MarkReplaced ==
    seen' = [s \in Sessions |-> IF s \in openStreams THEN seen[s] \cup {"replaced"}
                                ELSE seen[s]]

\* Lines 379-390 of useChatPage.ts: the first id of emptyConversationIds
\* that is not the active one and is listed, "null" when there is none.
reusableIdOf(active, emptyIds, listed) ==
    LET fit == SelectSeq(emptyIds, LAMBDA id : id # active /\ Listed(listed, id))
    IN  IF fit = <<>> THEN "null" ELSE fit[1]

\* What startNewConversation awaits when called with this state in its
\* closure (lines 368-397): nothing, the load of a reusable conversation,
\* or createConversation.
startNewCall(streaming, active, transcript, emptyIds, listed, deleted) ==
    LET reusableId == reusableIdOf(active, emptyIds, listed)
    IN  IF streaming THEN NoCall
        ELSE IF active # "null" /\ transcript = <<>> THEN NoCall
        ELSE IF reusableId # "null"
             THEN [op |-> "load", id |-> reusableId, deleted |-> deleted, then |-> "none"]
             ELSE [op |-> "create", id |-> "null", deleted |-> deleted, then |-> "none"]

\* The page is mounted and refreshConversations has listed the
\* conversations; the user may have selected c1, which has no messages.
InitConversations ==
    /\ messages = <<>>
    /\ isStreaming = FALSE
    /\ activeConversationId \in { "null", "c1" }
    /\ assistantIds = <<>>
    /\ openStreams = {}
    /\ idCounter = 0
    /\ seen = <<>>
    /\ acc = <<>>
    /\ steps = 0
    /\ persisted = <<>>
    /\ entries = <<>>
    /\ rpc = "idle"
    /\ DecoderIdle
    /\ ParserIdle
    /\ FormatterIdle
    /\ conversations \in { <<"c1">>, <<"c2", "c1">> }
    /\ emptyConversationIds = IF activeConversationId = "c1" THEN <<"c1">> ELSE <<>>
    /\ pendingCall = NoCall

HoldLive ==
    UNCHANGED <<messages, isStreaming, activeConversationId, assistantIds, openStreams,
                idCounter, seen, acc>>

HoldOthers == UNCHANGED <<replayVars, decoderVars, parserVars, formatterVars>>

\* A conversation of the panel is clicked: loadConversation awaits
\* getConversation.
SelectConversation(id) ==
    /\ steps < MaxSteps
    /\ ~disableInteractions
    /\ pendingCall = NoCall
    /\ Listed(conversations, id)
    /\ pendingCall' = [op |-> "load", id |-> id, deleted |-> "null", then |-> "none"]
    /\ steps' = steps + 1
    /\ HoldLive /\ HoldOthers
    /\ UNCHANGED <<conversations, emptyConversationIds>>

\* getConversation resolves (useActiveConversation.ts, lines 52-73).
LoadResolved(detail) ==
    /\ pendingCall.op = "load"
    /\ activeConversationId' = pendingCall.id
    /\ messages' = buildChatEntriesFromDetail(pendingCall.id, detail)
    /\ LET hasId == Listed(emptyConversationIds, pendingCall.id)
       IN  emptyConversationIds' =
                IF messages' = <<>> /\ ~hasId THEN Append(emptyConversationIds, pendingCall.id)
                ELSE IF messages' # <<>> /\ hasId
                     THEN Without(emptyConversationIds, pendingCall.id)
                     ELSE emptyConversationIds
    /\ MarkReplaced
    /\ pendingCall' = NoCall
    /\ steps' = steps + 1
    /\ HoldOthers
    /\ UNCHANGED <<isStreaming, assistantIds, openStreams, idCounter, acc, conversations>>

\* The button of a new conversation is clicked.
StartNewConversation ==
    /\ steps < MaxSteps
    /\ ~disableInteractions
    /\ pendingCall = NoCall
    /\ pendingCall' = startNewCall(isStreaming, activeConversationId, messages,
                                   emptyConversationIds, conversations, "null")
    /\ steps' = steps + 1
    /\ HoldLive /\ HoldOthers
    /\ UNCHANGED <<conversations, emptyConversationIds>>

\* createConversation resolves with a conversation that is new
\* (useConversations.ts, lines 63-65; useChatPage.ts, lines 399-409).
CreateResolved(id) ==
    /\ pendingCall.op = "create"
    /\ ~Listed(conversations, id)
    /\ conversations' = <<id>> \o conversations
    /\ activeConversationId' = id
    /\ messages' = <<>>
    /\ emptyConversationIds' =
            IF Listed(emptyConversationIds, id) THEN emptyConversationIds
            ELSE Append(emptyConversationIds, id)
    /\ MarkReplaced
    /\ pendingCall' = NoCall
    /\ steps' = steps + 1
    /\ HoldOthers
    /\ UNCHANGED <<isStreaming, assistantIds, openStreams, idCounter, acc>>

\* Delete is clicked for a conversation (useChatPage.ts, lines 432-446):
\* the id leaves emptyConversationIds and deleteConversation is awaited.
\* What startNewConversation will do afterwards is decided by the state in
\* its closure, the one of the render the click was made in.
HandleDeleteConversation(id) ==
    /\ steps < MaxSteps
    /\ ~disableInteractions
    /\ pendingCall = NoCall
    /\ Listed(conversations, id)
    /\ emptyConversationIds' = Without(emptyConversationIds, id)
    /\ pendingCall' =
            [op |-> "delete", id |-> id, deleted |-> id,
             then |-> IF id # activeConversationId THEN "none"
                      ELSE startNewCall(isStreaming, activeConversationId, messages,
                                        emptyConversationIds, conversations, id).op]
    /\ steps' = steps + 1
    /\ HoldLive /\ HoldOthers
    /\ UNCHANGED conversations

\* deleteConversation resolves (useConversations.ts, lines 81-82), and when
\* the conversation was the active one startNewConversation is called
\* (useChatPage.ts, lines 447-449).  The reusable conversation is the one
\* of the click: no other call has changed the list or the set since.
DeleteResolved ==
    /\ pendingCall.op = "delete"
    /\ conversations' = Without(conversations, pendingCall.id)
    /\ pendingCall' =
            IF pendingCall.then = "load"
            THEN [op |-> "load",
                  id |-> reusableIdOf(pendingCall.id, emptyConversationIds, conversations),
                  deleted |-> pendingCall.id, then |-> "none"]
            ELSE IF pendingCall.then = "create"
            THEN [op |-> "create", id |-> "null", deleted |-> pendingCall.id,
                  then |-> "none"]
            ELSE NoCall
    /\ steps' = steps + 1
    /\ HoldLive /\ HoldOthers
    /\ UNCHANGED emptyConversationIds

\* The number of steps of a run of the panel.
MaxPanelSteps == 4

NextConversations ==
    \/ /\ steps < MaxPanelSteps
       /\ activeConversationId # "null"
       /\ \E value \in UserInputs : Submit(value)
    \/ steps < MaxPanelSteps /\ \E s \in Sessions : HandleEvent(s)
    \/ steps < MaxPanelSteps /\ \E s \in Sessions : StreamEnd(s)
    \/ steps < MaxPanelSteps /\ \E id \in ConversationIds : SelectConversation(id)
    \/ steps < MaxPanelSteps /\ \E detail \in Details : LoadResolved(detail)
    \/ steps < MaxPanelSteps /\ StartNewConversation
    \/ steps < MaxPanelSteps /\ \E id \in ConversationIds : CreateResolved(id)
    \/ steps < MaxPanelSteps /\ \E id \in ConversationIds : HandleDeleteConversation(id)
    \/ steps < MaxPanelSteps /\ DeleteResolved

SpecConversations == InitConversations /\ [][NextConversations]_vars

\* A step that replaces the transcript: getConversation or
\* createConversation resolves.
TranscriptReplaced == pendingCall.op \in { "load", "create" } /\ pendingCall' = NoCall

\* No transcript is replaced while a stream is being read.
NoReplacementWhileReading == [][TranscriptReplaced => openStreams = {}]_vars

\* An event of a stream that was open when the transcript was replaced
\* leaves the transcript alone.
StaleEventsIgnored ==
    [][\A s \in Sessions :
        ("replaced" \in seen[s] /\ HandleEvent(s)) => messages' = messages]_vars

(***************************************************************************)
(* C36.  As claimed: loading a conversation does not replace the           *)
(* transcript while a stream is being read, and no event of a stream       *)
(* appends or modifies an entry of a transcript that has replaced the one  *)
(* the stream was started in.                                              *)
(***************************************************************************)
EventsKeepToTheirTranscript == NoReplacementWhileReading /\ StaleEventsIgnored

\* The call of handleDeleteConversation for `id` completes at this step.
DeleteCompleted(id) == pendingCall.deleted = id /\ pendingCall' = NoCall

(***************************************************************************)
(* C38.  As claimed: when handleDeleteConversation(id) has completed, id   *)
(* is not the active conversation, is not in emptyConversationIds and is   *)
(* not in the list of conversations.                                       *)
(***************************************************************************)
DeletedConversationGone ==
    [][\A id \in ConversationIds :
        DeleteCompleted(id) =>
            /\ activeConversationId' # id
            /\ ~Listed(emptyConversationIds', id)
            /\ ~Listed(conversations', id)]_vars

\* The positions of the tool messages in a persisted list, in order.
ToolMessagePositions(list) ==
    SelectSeq([k \in 1..Len(list) |-> k], LAMBDA k : IsToolMessage(list[k]))

(***************************************************************************)
(* C37.  Replay conserves tool events: the tool events of the output       *)
(* entries, put together in the order of the entries, are the tool events  *)
(* of the tool messages of the input, one for each and in the order of     *)
(* the messages, and every entry that holds a tool event is an assistant   *)
(* entry.                                                                  *)
(***************************************************************************)
ReplayConservesToolEvents ==
    rpc = "done" =>
        LET positions == ToolMessagePositions(persisted)
            events == AllToolEvents(entries)
        IN  /\ Len(events) = Len(positions)
            /\ \A i \in 1..Len(positions) :
                    events[i] = toolMessageEvent(persisted[positions[i]], "c1",
                                                 positions[i] - 1)
            /\ \A i \in 1..Len(entries) :
                    entries[i].toolEvents # <<>> => entries[i].role = "assistant"

\* A tool message, a user message, a tool message and an answer: the first
\* event is on a placeholder in front of the user entry, the second on the
\* answer.
ReplayConservesToolEventsWitness ==
    /\ rpc = "done"
    /\ Len(persisted) = 4
    /\ IsToolMessage(persisted[1]) /\ IsUserMessage(persisted[2])
    /\ IsToolMessage(persisted[3]) /\ IsAssistantMessage(persisted[4])
    /\ Len(entries) = 3
    /\ entries[1].toolEvents = << toolMessageEvent(persisted[1], "c1", 0) >>
    /\ entries[2].role = "user"
    /\ entries[3].toolEvents = << toolMessageEvent(persisted[3], "c1", 2) >>

(***************************************************************************)
(* What the scanner's termination is stated against: where a marker is,    *)
(* where the blanks behind it end, and where a literal closes, none of it  *)
(* read off the scanner.                                                   *)
(***************************************************************************)
\* The loop that runs and the marker it looks for.
ScanLoopRuns == fpc \in {"tools", "analyses"}

ScanMarker == IF fpc = "tools" THEN ToolMarker ELSE AIMarker

\* The first marker at or after the scan index.
MarkerAt ==
    CHOOSE i \in result.index..Len(args) :
        /\ args[i] = ScanMarker
        /\ \A j \in result.index..(i - 1) : args[j] # ScanMarker

\* The first position behind the marker that holds no blank, the length of
\* the text plus one when there is none.
LiteralAt ==
    CHOOSE q \in (MarkerAt + 1)..(Len(args) + 1) :
        /\ q <= Len(args) => args[q] # " "
        /\ \A j \in (MarkerAt + 1)..(q - 1) : args[j] = " "

\* The number of backslashes that stand directly in front of position c of a
\* literal opened at position q.
BackslashesBefore(text, q, c) ==
    LET others == { j \in q..(c - 1) : text[j] # "\\" }
        last == CHOOSE j \in others : \A k \in others : k <= j
    IN  c - 1 - last

\* The positions at which the literal opened at position q can close: its
\* quote, with an even number of backslashes directly in front of it.
Closers(text, q) ==
    IF q > Len(text) \/ text[q] \notin Quotes THEN {}
    ELSE { c \in (q + 1)..Len(text) :
            text[c] = text[q] /\ BackslashesBefore(text, q, c) % 2 = 0 }

FirstCloser(text, q) ==
    CHOOSE c \in Closers(text, q) : \A d \in Closers(text, q) : c <= d

\* A literal is opened at position q and its last character is a backslash
\* that escapes nothing.
DanglingBackslash(text, q) ==
    /\ q < Len(text) /\ text[q] \in Quotes
    /\ text[Len(text)] = "\\"
    /\ BackslashesBefore(text, q, Len(text)) % 2 = 0
    /\ Closers(text, q) = {}

\* An iteration of one of the loops has run.
ScanIterated == ScanLoopRuns /\ fpc' = fpc /\ result' # result

(***************************************************************************)
(* C39.  The legacy-text scanner always terminates.  Every iteration of    *)
(* the two marker loops moves the scan index forward: behind the closing   *)
(* quote of a literal that was read, and otherwise one position behind     *)
(* the place where the literal was expected, which is behind the marker.   *)
(* parseQuotedString returns null where no quote opens a literal, where    *)
(* the literal has no closing quote and where it ends in a backslash       *)
(* that escapes nothing, and the end of the closing quote otherwise.       *)
(* Both loops come to their end.                                           *)
(***************************************************************************)
ScannerTerminates ==
    /\ [][ScanIterated =>
            /\ result'.index > result.index
            /\ result'.index > MarkerAt
            /\ IF Closers(args, LiteralAt) # {}
               THEN result'.index = FirstCloser(args, LiteralAt) + 1
               ELSE result'.index = LiteralAt + 1]_vars
    /\ [](\A q \in 1..Len(args) :
            /\ Closers(args, q) = {} => parseQuotedString(args, q) = Nothing
            /\ DanglingBackslash(args, q) => parseQuotedString(args, q) = Nothing
            /\ Closers(args, q) # {} =>
                    /\ parseQuotedString(args, q).ok
                    /\ parseQuotedString(args, q).endIndex = FirstCloser(args, q) + 1)
    /\ <>(fpc = "done")

\* A ToolMessage literal that does not close and an AIMessage marker with
\* no quote behind it: both loops went past them and ended.
ScannerTerminatesWitness ==
    /\ fpc = "done"
    /\ args = <<ToolMarker, "'", AIMarker, "x">>
    /\ result = [index |-> 5, tables |-> <<>>, analyses |-> <<>>]

====
